---- MODULE Spec2Model ----
(***************************************************************************)
(* Warranty-registration automation (AkonDion/browser-automation).         *)
(*                                                                         *)
(* Specification Spec models whole automation runs: a caller (the webhook  *)
(* handler of WebhookServer, or runSingleTest of the CLI driver) builds a  *)
(* DaikinAutomation, initializes its BrowserManager, drives the flow steps *)
(* against the remote form and closes the session.  The remote form and    *)
(* the browser are the environment: every browser interaction may succeed  *)
(* or throw, and the messages the form shows after a serial is submitted   *)
(* are chosen by the form.  Runs interleave at their await points.         *)
(***************************************************************************)
EXTENDS Integers, Sequences, FiniteSets, TLC

(***************************************************************************)
(* Bounds of the model.                                                    *)
(***************************************************************************)
NumRuns == 2        \* runs that callers start (they may overlap in time)
MaxProducts == 2    \* longest product list of a request
MaxConcProducts == 1   \* longest product list of a request of overlapping runs
NumCalls == 2       \* calls of CertificateCleanup methods that may be in progress
MaxTime == 3        \* hours the clock runs
RetentionHours == 2 \* the configured retention window (config.cleanup.retentionHours)
MaxSelectors == 3   \* longest selector list handed to a locator
MaxDialogs == 3     \* longest chain of dialogs after the final confirmation
MaxPayloadProducts == 2   \* longest products array of a webhook payload
MaxRepeat == 2      \* largest --repeat of the command line
MaxRetries == 2     \* largest --retries of the command line

Runs == 1..NumRuns
Calls == 1..NumCalls

(***************************************************************************)
(* Strings the code converts are sequences of characters, so that the      *)
(* conversion is computed.  Other strings are opaque.                      *)
(***************************************************************************)
UpperOf(c) ==
  CASE c = "e" -> "E"
    [] c = "a" -> "A"
    [] OTHER -> c

ToUpperCase(s) == [i \in 1..Len(s) |-> UpperOf(s[i])]

\* The serial of the product at position i of a request, as the caller wrote it.
DigitChar(i) == << "0", "1", "2", "3", "4", "5", "6", "7", "8", "9" >>[(i % 10) + 1]

RawSerial(i) == << IF i % 2 = 1 THEN "e" ELSE "E", DigitChar(i) >>

ProductLists == { [i \in 1..n |-> RawSerial(i)] : n \in 1..MaxProducts }

\* A request as the caller hands it over: products (serials), and whether the
\* customer group and the dealer group are present (a dealer comes only with
\* a customer).
Requests ==
  { q \in [products : ProductLists, customer : BOOLEAN, dealer : BOOLEAN] :
      q.dealer => q.customer }

Filenames == { "cert.pdf", "warranty.pdf" }
NoFile == ""

(***************************************************************************)
(* Errors.  A JavaScript Error raised by the browser layer has no `type`   *)
(* property (modelled as the empty string, which is falsy like undefined). *)
(***************************************************************************)
NoError == [type |-> "none", message |-> "", serial |-> <<>>]

BrowserError == [type |-> "", message |-> "Timeout exceeded", serial |-> <<>>]

TypeErrorUndefined ==
  [type |-> "", message |-> "Cannot read properties of undefined", serial |-> <<>>]

ScreenshotError == [type |-> "", message |-> "page.screenshot failed", serial |-> <<>>]

AlreadyRegisteredError(serial) ==
  [type |-> "ALREADY_REGISTERED",
   message |-> "This unit has already been registered",
   serial |-> serial]

InvalidSerialError(serial) ==
  [type |-> "INVALID_SERIAL",
   message |-> "The Serial number is invalid",
   serial |-> serial]

(***************************************************************************)
(* The flow steps in the order the two run boundaries call them.           *)
(***************************************************************************)
FlowStepsDateFirst ==
  << "navigateToForm", "fillInstallationDate", "addAllProducts",
     "selectResidentialOption", "clickNext", "fillCustomerDetails",
     "fillDealerBuilderInfo", "completeRegistration" >>

FlowSteps ==
  << "navigateToForm", "addAllProducts", "fillInstallationDate",
     "selectResidentialOption", "clickNext", "fillCustomerDetails",
     "fillDealerBuilderInfo", "completeRegistration" >>

NoOutcome ==
  [kind |-> "none", success |-> FALSE, type |-> "", message |-> "",
   serial |-> <<>>, filename |-> NoFile]

NoResponse == [code |-> "none", serial |-> <<>>, content |-> 0]

NoResources == [page |-> "null", context |-> "null", browser |-> "null"]

NoFormData == [products |-> <<>>, customer |-> FALSE, dealer |-> FALSE]

(***************************************************************************)
(* The retention tracker (CertificateCleanup).  The metadata file is a     *)
(* JSON object keyed by filename; it is modelled as the sequence of its    *)
(* entries in key order, which is the order Object.entries walks.  A       *)
(* timestamp is the clock value; webhookDeliveredAt is <<>> for null and   *)
(* << t >> for a time.                                                     *)
(***************************************************************************)
Names(md) == { md[i].name : i \in 1..Len(md) }

IndexOf(md, f) == CHOOSE i \in 1..Len(md) : md[i].name = f

\* metadata[filename]
Lookup(md, f) == md[IndexOf(md, f)]

\* metadata[filename] = entry: an existing key keeps its place, a new key is
\* added at the end.
Put(md, e) ==
  IF e.name \in Names(md) THEN [md EXCEPT ![IndexOf(md, e.name)] = e]
  ELSE Append(md, e)

\* delete metadata[filename]
Remove(md, f) == SelectSeq(md, LAMBDA e : e.name # f)

\* A call of recordCertificate, recordWebhookDelivery or runCleanup:
\*   op, pc      the method and the point the call has reached
\*   filename, webhookSuccess   its arguments
\*   md          its local `metadata` object
\*   todo        the entries its loop has still to visit
\*   cutoffTime  runCleanup's cutoffTime
\*   cleaned, errors   runCleanup's results
\*   loaded, files0, startedAt   what the call loaded, the files on disk and
\*               the clock when its pass began (for the properties)
\*   failed      a file operation of the call failed
IdleCall ==
  [op |-> "none", pc |-> "idle", filename |-> NoFile, webhookSuccess |-> FALSE,
   md |-> <<>>, todo |-> <<>>, cutoffTime |-> 0, cleaned |-> 0, errors |-> 0,
   loaded |-> <<>>, files0 |-> [f \in Filenames |-> 0], startedAt |-> 0,
   failed |-> FALSE]

(***************************************************************************)
(* The page-interaction helpers: the selector-list locators of             *)
(* daikinUtils.js (clickFirstVisible, getFirstVisible, fillInput) and      *)
(* FormInteractions.typeIntoField.  The page is the environment.  For each *)
(* selector of the list it says what a probe finds:                        *)
(*   "timeout"   waitForSelector throws (nothing matches in time)          *)
(*   "hidden"    an element matches, isVisible() is false                  *)
(*   "disabled"  the element is visible, isEnabled() is false              *)
(*   "enabled"   the element is visible and enabled                        *)
(* what a click on it does ("clicks"; "forced": click() throws an          *)
(* intercepts/viewport error and the click through evaluate works;         *)
(* "forceFails": the same but evaluate finds no element; "fails": click()  *)
(* throws another error), and which element it is.                         *)
(***************************************************************************)
Catalogue ==
  << "[name=serial]", "input:visible", "mat-form-field input", "form input",
     "input[type=text]" >>

SelectorLists == { SubSeq(Catalogue, 1, n) : n \in 1..MaxSelectors }

Statuses == { "timeout", "hidden", "disabled", "enabled" }
ClickOutcomes == { "clicks", "forced", "forceFails", "fails" }
Elements == { "el1", "el2" }

\* Values written to a field, as sequences of characters.
Values == { << "e", "1" >>, << "E", "1" >> }

NoDom ==
  [status |-> <<>>, click |-> <<>>, element |-> <<>>, content |-> <<>>,
   reformat |-> "none", glitch |-> FALSE]

\* What a locator or field-write call returns or throws.
NoResult ==
  [kind |-> "none", selector |-> "", element |-> "", message |-> "",
   selectors |-> <<>>]

\* A call of clickFirstVisible, getFirstVisible, fillInput or typeIntoField:
\*   selectors, value, verify, clear, ensureEnabled, forceFallback  arguments
\*   i        index of the selector the loop is at
\*   tried    the selectors probed, in order
\*   found    index of the selector whose element the call works on (0: none)
\*   io       the operations on the field, in order
\*   clicked  the clicks clickFirstVisible made: index of the selector and
\*            "click" (element.click()) or "force" (el.click() in the page)
\*   forced   the selectors (by index) for which the click through
\*            frame.evaluate was attempted
\*   faulted  an interaction with the browser threw
\*   shots    the screenshots a BrowserManager operation took, by label
\*   cause    the message of the failure that made the operation throw
IdleAct ==
  [op |-> "none", pc |-> "idle", selectors |-> <<>>, value |-> <<>>,
   verify |-> FALSE, clear |-> FALSE, ensureEnabled |-> TRUE,
   forceFallback |-> TRUE, i |-> 1, tried |-> <<>>, found |-> 0, io |-> <<>>,
   clicked |-> <<>>, forced |-> <<>>, shots |-> <<>>, cause |-> "",
   faulted |-> FALSE, result |-> NoResult]

\* The dialogs that the form shows one after another once the final Yes is
\* clicked (only the first of `chain` is on screen), and the handling:
\*   variant   "overlay": completeRegistration with handleOverlay;
\*             "loop": completeRegistration with the handleDialogs loop
\*   chain     the dialogs still to come, initial: the chain at the Yes click
\*   attempts  passes of handleDialogs made;  handled: the last pass found one
\*   found     the pass (the call of handleOverlay) under way found a dialog
\*   waited    probes that waited for a dialog to appear
\*   errors    clicks on a dialog button that threw
\*   raised    the kinds of error those clicks threw ("timeout": a
\*             TimeoutError, "error": any other error)
\*   log       dialogs dismissed and the download click, in order
\*   steps     the buttons clicked up to the final Yes, the address-confirmation
\*             probes made and what happened to the address-confirmation
\*             dialog ("shown", "confirmed", "dismissed"), in order; "other":
\*             a dialog with another message arrived at a probe
\*   late      the address-confirmation dialog is about to appear (it opens
\*             after the probe that follows the click has begun)
\*   open      an address-confirmation window is on screen
\*   listeners one-shot popup listeners registered (page.once) and not yet used
\*   popups    popup windows opened by clicks on Installing Contractor
\*   unanswered  dialogs whose event handleDialog received and which it
\*             neither accepted nor dismissed before it returned
\*   dl        the steps of the download made so far, in order ("listen":
\*             page.waitForEvent('download') is called, "click", "event": the
\*             awaited promise yields the download, "save", "return")
\*   event     the download event: "none", "pending" (not fired yet), "held"
\*             (fired while the listener was registered), "missed" (fired
\*             with no listener); fired: when it fired
\*   unclosed  those of them that no listener closed
Dialogs == {"contractor", "ok"}

Chains == UNION { [1..n -> Dialogs] : n \in 0..MaxDialogs }

ClickResults == {"ok", "timeout", "error"}

\* When the popup window of the Installing Contractor button opens: not at all,
\* before the click on the button has resolved, or after it.
PopupTimings == {"none", "duringClick", "afterClick"}

\* When the address-confirmation dialog opens after a click on Register or
\* Affirm: not at all, before the probe that follows the click begins (while
\* clickButton still waits for the network to be idle), or after it began.
AddressTimings == {"none", "early", "late"}

MaxAttempts == 3

NoDialogs ==
  [variant |-> "none", pc |-> "idle", chain |-> <<>>, initial |-> <<>>,
   attempts |-> 0, handled |-> FALSE, found |-> FALSE, waited |-> 0,
   errors |-> 0, raised |-> {}, log |-> <<>>,
   steps |-> <<>>, late |-> FALSE, open |-> FALSE,
   listeners |-> 0, popups |-> 0, unclosed |-> 0,
   dl |-> <<>>, event |-> "none", fired |-> "none", unanswered |-> 0]

(***************************************************************************)
(* The customer and dealer pages.  A request gives a text for every field; *)
(* texts are sequences of characters so that upper-casing is computed.     *)
(*   customer, dealer   the groups of the request as the caller wrote them *)
(*   data       this.formData.customer after the constructor               *)
(*   pc         index in FormSteps of the step to take next (0: idle)      *)
(*   form       the content of each field of the page                      *)
(*   autofill   "off" | "pending" | "done": the form's address lookup,     *)
(*              started by the postal code, fills city and/or state        *)
(*   cityValue, stateValue   what the automation read from the two fields  *)
(*   typed      what the automation wrote: field, value and what the field *)
(*              held just before, in order                                 *)
(*   failures   the fields whose write threw, in order                     *)
(*   mode       "daikin": fillCustomerDetails and fillDealerBuilderInfo;   *)
(*              "warranty": WarrantyAutomation.fillCustomerInformation     *)
(***************************************************************************)
CustomerFields ==
  { "firstName", "lastName", "phone", "email", "address1", "zipPostal",
    "city", "stateProvince" }

DealerFields ==
  { "dealerZip", "dealerName", "dealerAddress", "dealerCity", "dealerState",
    "dealerPhone" }

Texts == { << "a", "e" >>, << "A", "e" >>, << "E", "1" >> }

Blank == <<>>

FormSteps ==
  << "firstName", "lastName", "phone", "email", "address1", "zipPostal",
     "pause", "readCity", "readState", "city", "stateProvince", "next",
     "dealerZip", "dealerName", "dealerAddress", "dealerCity", "dealerState",
     "dealerPhone" >>

NoCustomerPage ==
  [customer |-> [f \in CustomerFields |-> Blank],
   dealer |-> [f \in DealerFields |-> Blank],
   data |-> [f \in CustomerFields |-> Blank],
   pc |-> 0,
   form |-> [f \in CustomerFields \cup DealerFields |-> Blank],
   autofill |-> "off", cityValue |-> Blank, stateValue |-> Blank,
   typed |-> <<>>, failures |-> <<>>, mode |-> "daikin"]

\* The fields fillCustomerInformation fills, in its order (the state field
\* comes after the loop over the others).
WarrantyFields ==
  << "firstName", "lastName", "email", "phone", "address", "city", "zipCode",
     "state" >>

(***************************************************************************)
(* A POST to the webhook endpoint, with the payload as it arrives.  An     *)
(* entry of the products array is null, or an object with or without       *)
(* serial and model; products may be something else than an array; the     *)
(* customer group is absent or has some of its fields.                     *)
(*   payload    req.body (validateWebhookPayload replaces its products)    *)
(*   received   the products as they arrived                               *)
(*   result     what validateWebhookPayload returned                       *)
(*   status     HTTP status answered (0: none yet)                         *)
(*   started    runAutomationAsync was called                              *)
(***************************************************************************)
ProductEntries == { "null", "neither", "serialOnly", "modelOnly", "both" }

RequiredCustomerFields ==
  { "firstName", "lastName", "phone", "email", "address1", "zipPostal" }

\* The customer group of a payload: absent, or the set of the required fields
\* it has.
NoCustomer == [present |-> FALSE, fields |-> {}]

Payloads ==
  [isArray : BOOLEAN,
   products : UNION { [1..n -> ProductEntries] : n \in 0..MaxPayloadProducts },
   installationDate : BOOLEAN,
   customer : {NoCustomer}
                \cup [present : {TRUE}, fields : SUBSET RequiredCustomerFields]]

NoPost ==
  [pc |-> "idle",
   payload |-> [isArray |-> TRUE, products |-> <<>>, installationDate |-> FALSE,
                customer |-> NoCustomer],
   received |-> <<>>, result |-> [valid |-> FALSE, errors |-> {}], status |-> 0, started |-> FALSE]

(***************************************************************************)
(* State.  run[r] holds everything that belongs to run r:                  *)
(*   driver      "none" | "webhook" | "cli": who started the run           *)
(*   request     the request as the caller handed it over                  *)
(*   formData    this.formData of the run's DaikinAutomation               *)
(*   bm          identity of the run's BrowserManager (0: none yet)        *)
(*   pc          control location of the run                               *)
(*   step        index in FlowSteps of the step to begin next              *)
(*   begun       the flow steps begun, in order                            *)
(*   okSteps     number of flow steps that finished without error          *)
(*   submitted   serials filled and submitted, in order                    *)
(*   seen        what the form showed after each submitted serial          *)
(*   raised      the error that aborted the run (NoError: none)            *)
(*   shots       labels of the screenshots captured                        *)
(*   outcome     how the run boundary ended (returned value or thrown)     *)
(*   initCalled  BrowserManager.initialize was called                      *)
(*   res         the session's page, context and browser                   *)
(*   closeCalls  calls of BrowserManager.close                             *)
(*   closeLog    the close operations attempted, in order                  *)
(*   closeResult "none" | "returned" | "threw": how close() ended          *)
(*   certName    filename under which the run saved its certificate        *)
(*   response    what the caller finally got                               *)
(***************************************************************************)
\* main() of index.js:
\*   repeat, retries   the command-line arguments
\*   i, attempt, success, successCount, failureCount   its variables
\*   calls     calls[k]: what each call of runSingleTest in iteration k returned
\*   verdicts  how each finished iteration was counted
\*   exit      the status handed to process.exit (-1: none yet)
NoMain ==
  [pc |-> "idle", repeat |-> 0, retries |-> 0, i |-> 0, attempt |-> 0,
   success |-> FALSE, successCount |-> 0, failureCount |-> 0, calls |-> <<>>,
   verdicts |-> <<>>, exit |-> -1]

VARIABLES
  run,      \* run[r]: the record of run r
  nextBm,   \* number of BrowserManager objects constructed so far
  fs,       \* fs[f]: the run whose certificate is the file ~/Downloads/f (0: no file)
  metadata, \* content of .certificate_metadata.json: entries in key order
  now,      \* the clock (new Date()), in hours
  call,     \* call[c]: a call of a CertificateCleanup method in progress
  enableCleanup,  \* CertificateCleanup.enableCleanup
  dom,      \* the page a locator or field-write call works on
  act,      \* the locator or field-write call in progress
  dlg,      \* the dialogs after the final confirmation, and their handling
  cust,     \* the customer and dealer pages as fillCustomerDetails and
            \* fillDealerBuilderInfo fill them
  hook,     \* a POST to the webhook endpoint and its validation
  cli       \* main() of the command-line driver

\* The state of the retention tracker, which no step of a run touches.
trackerVars == << metadata, now, call, enableCleanup >>

\* The state of the parts of the program that are modelled on their own.
pageVars == << dom, act, dlg, cust, hook, cli >>

outsideRuns == << trackerVars, pageVars >>

vars ==
  << run, nextBm, fs, metadata, now, call, enableCleanup, dom, act, dlg, cust, hook,
     cli >>

IdleRun ==
  [driver |-> "none", request |-> NoFormData, formData |-> NoFormData, bm |-> 0,
   pc |-> "idle", step |-> 1,
   begun |-> <<>>, okSteps |-> 0, submitted |-> <<>>, seen |-> <<>>,
   raised |-> NoError, shots |-> {}, outcome |-> NoOutcome, initCalled |-> FALSE,
   res |-> NoResources, closeCalls |-> 0, closeLog |-> <<>>, closeResult |-> "none",
   certName |-> NoFile, response |-> NoResponse]

Init ==
  /\ run = [r \in Runs |-> IdleRun]
  /\ nextBm = 0
  /\ fs = [f \in Filenames |-> 0]
  /\ metadata = <<>>
  /\ now = 0
  /\ call = [c \in Calls |-> IdleCall]
  /\ enableCleanup = TRUE
  /\ dom = NoDom
  /\ act = IdleAct
  /\ dlg = NoDialogs
  /\ cust = NoCustomerPage
  /\ hook = NoPost
  /\ cli = NoMain

(***************************************************************************)
(* Pure parts of the code.                                                 *)
(***************************************************************************)

\* WebhookServer.transformWebhookData: copies products, installationDate and
\* (when present) the customer group; no other group of the payload is copied.
transformWebhookData(payload) ==
  [products |-> payload.products, customer |-> payload.customer, dealer |-> FALSE]

\* DaikinAutomation.constructor: this.formData with the product serials upper-cased.
Constructor(data) ==
  [data EXCEPT !.products = [i \in 1..Len(data.products) |-> ToUpperCase(data.products[i])]]

\* The two probes of addProduct after a serial is submitted: the
\* already-registered message is looked for first, then the invalid-serial one.
ProbeErrorNoAlready(alreadyVisible, invalidVisible, serial) ==
  IF invalidVisible THEN InvalidSerialError(serial) ELSE NoError

ProbeError(alreadyVisible, invalidVisible, serial) ==
  IF alreadyVisible THEN AlreadyRegisteredError(serial)
  ELSE IF invalidVisible THEN InvalidSerialError(serial)
  ELSE NoError

\* What one of the plain flow steps raises (NoError: it finishes).  browserOk
\* says whether every browser interaction of the step succeeds.
StepError(name, fd, browserOk) ==
  CASE name = "fillCustomerDetails" ->
         IF ~fd.customer THEN TypeErrorUndefined      \* customerData.firstName of undefined
         ELSE IF browserOk THEN NoError ELSE BrowserError
    [] name = "fillDealerBuilderInfo" ->
         IF ~browserOk THEN BrowserError
         ELSE IF ~fd.dealer THEN TypeErrorUndefined   \* dealer.dealerZip of undefined
         ELSE NoError
    [] OTHER -> IF browserOk THEN NoError ELSE BrowserError

\* Whether the run boundary of driver d goes on to begin step i: the webhook's
\* runAutomationAsync runs the customer, dealer and registration steps only
\* when formData.customer is set; runFirstPageAutomation runs all of them.
Proceeds(d, fd, i) ==
  /\ i <= Len(FlowSteps)
  /\ (d = "cli" \/ i <= 5 \/ fd.customer)

\* Where control goes when flow step i throws: runFirstPageAutomation enters
\* its catch block, runAutomationAsync rethrows and runs its finally block.
AfterThrowRetry(d, i) == [pc |-> "flow", step |-> i]

AfterThrow(d, i) ==
  [pc |-> IF d = "cli" THEN "catch" ELSE "finally", step |-> i]

\* error.type || 'AUTOMATION_ERROR'
ErrorType(err) == IF err.type = "" THEN "AUTOMATION_ERROR" ELSE err.type

\* The object runFirstPageAutomation returns from its catch block.
FailureResult(err) ==
  [kind |-> "return", success |-> FALSE, type |-> ErrorType(err),
   message |-> err.message, serial |-> <<>>, filename |-> NoFile]

\* The value a run boundary returns when the flow ran to its end: the CLI
\* boundary wraps downloadInfo in {success: true, ...}; the webhook boundary
\* returns downloadInfo itself, or null when no certificate step ran.
SuccessResult(d, filename) ==
  [kind |-> "return", success |-> TRUE, type |-> "",
   message |-> IF d = "cli" THEN "Registration completed successfully" ELSE "",
   serial |-> <<>>, filename |-> filename]

\* A run boundary that lets the error out (runAutomationAsync: throw error).
Thrown(err) ==
  [kind |-> "throw", success |-> FALSE, type |-> err.type,
   message |-> err.message, serial |-> err.serial, filename |-> NoFile]

\* BrowserManager.close: the order in which the three resources are closed.
CloseOrderReversed == << "browser", "context", "page" >>

CloseOrder == << "page", "context", "browser" >>

\* The close operations BrowserManager.close attempts, from position i on: a
\* null resource is skipped, and the operation that throws (failAt) ends the
\* try block.
RECURSIVE CloseFrom(_, _, _)
CloseFrom(i, rs, failAt) ==
  IF i > Len(CloseOrder) THEN <<>>
  ELSE LET k == CloseOrder[i]
       IN IF rs[k] = "null" THEN CloseFrom(i + 1, rs, failAt)
          ELSE IF failAt = k THEN << k >>
          ELSE << k >> \o CloseFrom(i + 1, rs, failAt)

\* The resources after close: an operation that was attempted and did not throw
\* has closed its resource.
AfterClose(rs, failAt) ==
  LET tried == CloseFrom(1, rs, failAt)
      done == { tried[j] : j \in { n \in 1..Len(tried) : tried[n] # failAt } }
  IN [k \in {"page", "context", "browser"} |-> IF k \in done THEN "closed" ELSE rs[k]]

\* BrowserManager.close catches whatever its close operations throw.
CloseThrows(rs, failAt) == FALSE

\* The finally block of runAutomationAsync and of runSingleTest:
\* if (automation) await automation.close().
FinallyClosesOnSuccessOnly(constructed, failed) == constructed /\ ~failed

FinallyCloses(constructed, failed) == constructed

\* The webhook handler's answer to what runAutomationAsync gave it.
RespondGeneric(oc, files) ==
  IF oc.kind = "return"
  THEN IF oc.filename # NoFile /\ files[oc.filename] # 0
       THEN [code |-> "PDF", serial |-> <<>>, content |-> files[oc.filename]]
       ELSE [code |-> "OK", serial |-> <<>>, content |-> 0]
  ELSE [code |-> "ERROR", serial |-> <<>>, content |-> 0]

Respond(oc, files) ==
  IF oc.kind = "return"
  THEN IF oc.filename # NoFile /\ files[oc.filename] # 0
       THEN [code |-> "PDF", serial |-> <<>>, content |-> files[oc.filename]]
       ELSE [code |-> "OK", serial |-> <<>>, content |-> 0]
  ELSE IF oc.type = "ALREADY_REGISTERED"
       THEN [code |-> "ALREADY_REGISTERED", serial |-> oc.serial, content |-> 0]
  ELSE IF oc.type = "INVALID_SERIAL"
       THEN [code |-> "INVALID_SERIAL", serial |-> oc.serial, content |-> 0]
  ELSE [code |-> "ERROR", serial |-> <<>>, content |-> 0]



(***************************************************************************)
(* Actions.  Each is the code of a run between two points where another    *)
(* run can overtake it.                                                    *)
(***************************************************************************)

\* The run's record after its flow step i finished without error.
Advance(rc, i, filename) ==
  IF Proceeds(rc.driver, rc.formData, i + 1)
  THEN [rc EXCEPT !.pc = "flow", !.step = i + 1, !.okSteps = @ + 1]
  ELSE [rc EXCEPT !.pc = "finally", !.okSteps = @ + 1,
                  !.outcome = SuccessResult(rc.driver, filename)]

\* The run's record after its flow step i threw err.
Abort(rc, i, err) ==
  LET a == AfterThrow(rc.driver, i)
  IN [rc EXCEPT !.raised = err, !.pc = a.pc, !.step = a.step,
                !.outcome = IF rc.driver = "webhook" THEN Thrown(err) ELSE @]

\* Runs are named in the order in which they are started.
IsNextRun(r) == run[r].pc = "idle" /\ \A q \in Runs : q < r => run[q].pc # "idle"

\* The record of a run whose DaikinAutomation has just been constructed.
StartRecord(d, request, data) ==
  [IdleRun EXCEPT !.driver = d, !.request = request, !.formData = Constructor(data),
                  !.bm = nextBm + 1, !.pc = "initialize"]

\* POST handler of the webhook up to its first await: the (valid) payload is
\* transformed and runAutomationAsync constructs the DaikinAutomation.
WebhookStart(r, payloads) ==
  /\ IsNextRun(r)
  /\ \E payload \in payloads :
       run' = [run EXCEPT ![r] = StartRecord("webhook", payload, transformWebhookData(payload))]
  /\ nextBm' = nextBm + 1
  /\ UNCHANGED fs
  /\ UNCHANGED outsideRuns

\* runSingleTest up to its first await: new DaikinAutomation(currentConfig),
\* whose form data is config.form.data.
CliStart(r, configs) ==
  /\ IsNextRun(r)
  /\ \E data \in configs :
       run' = [run EXCEPT ![r] = StartRecord("cli", data, data)]
  /\ nextBm' = nextBm + 1
  /\ UNCHANGED fs
  /\ UNCHANGED outsideRuns

\* The resources BrowserManager.initialize leaves behind when it gets as far
\* as `reached` ("none": launch threw; "page": everything was created).
InitResources(reached) ==
  [browser |-> IF reached \in {"browser", "context", "page"} THEN "open" ELSE "null",
   context |-> IF reached \in {"context", "page"} THEN "open" ELSE "null",
   page |-> IF reached = "page" THEN "open" ELSE "null"]

\* automation.initialize(): launch, newContext, newPage; any of them may throw,
\* and the caller's catch and finally blocks take over.
Initialize(r) ==
  /\ run[r].pc = "initialize"
  /\ \E reached \in {"none", "browser", "context", "page"} :
       LET rc == [run[r] EXCEPT !.initCalled = TRUE, !.res = InitResources(reached)]
       IN run' = [run EXCEPT ![r] =
                    IF reached = "page"
                    THEN [rc EXCEPT !.pc = "flow"]
                    ELSE [rc EXCEPT !.pc = "finally", !.raised = BrowserError,
                                    !.outcome = IF rc.driver = "webhook"
                                                THEN Thrown(BrowserError) ELSE @]]
  /\ UNCHANGED << nextBm, fs >>
  /\ UNCHANGED outsideRuns

\* One of navigateToForm, fillInstallationDate, selectResidentialOption,
\* clickNext, fillCustomerDetails, fillDealerBuilderInfo.
DoStep(r) ==
  /\ run[r].pc = "flow"
  /\ FlowSteps[run[r].step] \notin {"addAllProducts", "completeRegistration"}
  /\ \E browserOk \in BOOLEAN :
       LET name == FlowSteps[run[r].step]
           rc == [run[r] EXCEPT !.begun = Append(@, name)]
           err == StepError(name, rc.formData, browserOk)
       IN run' = [run EXCEPT ![r] =
                    IF err = NoError THEN Advance(rc, rc.step, NoFile)
                    ELSE Abort(rc, rc.step, err)]
  /\ UNCHANGED << nextBm, fs >>
  /\ UNCHANGED outsideRuns

\* addAllProducts is entered: its loop over this.formData.products starts.
BeginAddAllProducts(r) ==
  /\ run[r].pc = "flow"
  /\ FlowSteps[run[r].step] = "addAllProducts"
  /\ run' = [run EXCEPT ![r] = [@ EXCEPT !.begun = Append(@, "addAllProducts"),
                                         !.pc = "products"]]
  /\ UNCHANGED << nextBm, fs >>
  /\ UNCHANGED outsideRuns

\* for (const product of this.formData.products): the product the loop of
\* addAllProducts hands to addProduct after n products were added.
NextProductFromEnd(products, n) == products[Len(products) - n]

NextProduct(products, n) == products[n + 1]

\* addProduct for the next product of the list: fill, press Enter, wait, then
\* the two probes.  `shown` is what the form displays after the submission
\* ("fail": the fill or the key press threw).
AddProduct(r) ==
  /\ run[r].pc = "products"
  /\ Len(run[r].submitted) < Len(run[r].formData.products)
  /\ \E shown \in {"fail", "clean", "already", "invalid", "both"} :
       LET i == Len(run[r].submitted) + 1
           serial == NextProduct(run[r].formData.products, Len(run[r].submitted))
           rc == [run[r] EXCEPT !.submitted = Append(@, serial),
                                 !.seen = Append(@, shown)]
           err == ProbeError(shown \in {"already", "both"},
                             shown \in {"invalid", "both"}, serial)
       IN run' = [run EXCEPT ![r] =
                    IF shown = "fail" THEN Abort(run[r], run[r].step, BrowserError)
                    ELSE IF err # NoError THEN Abort(rc, rc.step, err)
                    ELSE IF i = Len(rc.formData.products) THEN Advance(rc, rc.step, NoFile)
                    ELSE rc]
  /\ UNCHANGED << nextBm, fs >>
  /\ UNCHANGED outsideRuns

\* completeRegistration up to the point where the download listener is set up:
\* Register, Affirm, Yes, the dialog probes, the after_confirmations screenshot.
CompleteRegistrationConfirm(r) ==
  /\ run[r].pc = "flow"
  /\ FlowSteps[run[r].step] = "completeRegistration"
  /\ \E browserOk \in BOOLEAN :
       LET rc == [run[r] EXCEPT !.begun = Append(@, "completeRegistration")]
       IN run' = [run EXCEPT ![r] =
                    IF browserOk
                    THEN [rc EXCEPT !.shots = @ \cup {"after_confirmations"},
                                    !.pc = "download"]
                    ELSE Abort(rc, rc.step, BrowserError)]
  /\ UNCHANGED << nextBm, fs >>
  /\ UNCHANGED outsideRuns

\* The download step of completeRegistration: click Download Certificate, await
\* the download, save it as ~/Downloads/<suggestedFilename>, return downloadInfo.
CompleteRegistrationDownload(r) ==
  /\ run[r].pc = "download"
  /\ \E f \in Filenames \cup {NoFile} :
       IF f # NoFile
       THEN /\ run' = [run EXCEPT ![r] =
                         Advance([run[r] EXCEPT !.certName = f], run[r].step, f)]
            /\ fs' = [fs EXCEPT ![f] = r]
       ELSE /\ run' = [run EXCEPT ![r] = Abort(run[r], run[r].step, BrowserError)]
            /\ fs' = fs
  /\ UNCHANGED nextBm
  /\ UNCHANGED outsideRuns

\* The catch block of runFirstPageAutomation: the error_state screenshot, then
\* the failure result.  takeScreenshot rethrows when page.screenshot fails.
CatchScreenshot(r) ==
  /\ run[r].pc = "catch"
  /\ \E shotOk \in BOOLEAN :
       run' = [run EXCEPT ![r] =
                 IF shotOk
                 THEN [@ EXCEPT !.shots = @ \cup {"error_state"},
                                !.outcome = FailureResult(run[r].raised),
                                !.pc = "finally"]
                 ELSE [@ EXCEPT !.outcome = Thrown(ScreenshotError), !.pc = "finally"]]
  /\ UNCHANGED << nextBm, fs >>
  /\ UNCHANGED outsideRuns

\* Whether the run has failed when its caller's finally block is reached.
RunFailed(rc) == rc.raised # NoError \/ rc.outcome.kind = "throw"

\* What runSingleTest returns to main.
TestResult(oc) ==
  [code |-> IF oc.kind = "return" /\ oc.success THEN "TEST_OK" ELSE "TEST_FAILED",
   serial |-> <<>>, content |-> 0]

\* The run's record after BrowserManager.close(), where failAt names the close
\* operation that throws.
Closed(rc, failAt) ==
  [rc EXCEPT !.closeCalls = @ + 1,
             !.closeLog = @ \o CloseFrom(1, rc.res, failAt),
             !.res = AfterClose(rc.res, failAt),
             !.closeResult = IF CloseThrows(rc.res, failAt) THEN "threw" ELSE "returned"]

\* The finally block of the caller, if (automation) await automation.close(),
\* and the return to the caller's caller: runSingleTest returns its boolean to
\* main, runAutomationAsync returns to (or throws into) the webhook handler.
Close(r) ==
  /\ run[r].pc = "finally"
  /\ \E failAt \in {"none", "page", "context", "browser"} :
       LET rc == IF FinallyCloses(run[r].bm # 0, RunFailed(run[r]))
                 THEN Closed(run[r], failAt) ELSE run[r]
       IN run' = [run EXCEPT ![r] =
                    IF rc.driver = "webhook"
                    THEN [rc EXCEPT !.pc = "handler"]
                    ELSE [rc EXCEPT !.pc = "done", !.response = TestResult(rc.outcome)]]
  /\ UNCHANGED << nextBm, fs >>
  /\ UNCHANGED outsideRuns

\* The webhook handler after runAutomationAsync: the certificate file is read
\* and sent, or a JSON answer is sent.
HandleResponse(r) ==
  /\ run[r].pc = "handler"
  /\ run' = [run EXCEPT ![r] = [@ EXCEPT !.response = Respond(run[r].outcome, fs),
                                         !.pc = "done"]]
  /\ UNCHANGED << nextBm, fs >>
  /\ UNCHANGED outsideRuns

\* The caller has its answer and drops the run's objects; the BrowserManager
\* that was the run's is never handed out again.
Forget(r) ==
  /\ run[r].pc = "done"
  /\ run' = [run EXCEPT ![r] = [IdleRun EXCEPT !.pc = "forgotten", !.bm = run[r].bm]]
  /\ UNCHANGED << nextBm, fs >>
  /\ UNCHANGED outsideRuns

\* The steps of a run once it is started.
RunStep(r) ==
  \/ Initialize(r)
  \/ DoStep(r)
  \/ BeginAddAllProducts(r)
  \/ AddProduct(r)
  \/ CompleteRegistrationConfirm(r)
  \/ CompleteRegistrationDownload(r)
  \/ CatchScreenshot(r)
  \/ Close(r)
  \/ HandleResponse(r)

\* Callers that start one run after the other (main's loop in the CLI driver,
\* a webhook client that waits for each answer).
PreviousForgotten(r) == \A q \in Runs : q < r => run[q].pc = "forgotten"

Next ==
  \E r \in Runs :
    \/ PreviousForgotten(r) /\ WebhookStart(r, Requests)
    \/ PreviousForgotten(r) /\ CliStart(r, Requests)
    \/ RunStep(r)
    \/ Forget(r)

Spec == Init /\ [][Next]_vars

\* Callers that do not wait for each other: concurrent webhook requests,
\* several driver processes.  Their requests carry at most MaxConcProducts
\* products each.
ConcRequests == { q \in Requests : Len(q.products) <= MaxConcProducts }

NextConc ==
  \E r \in Runs :
    \/ WebhookStart(r, ConcRequests)
    \/ CliStart(r, ConcRequests)
    \/ RunStep(r)

SpecConc == Init /\ [][NextConc]_vars


(***************************************************************************)
(* The retention tracker: pure parts.                                      *)
(***************************************************************************)

\* loadMetadata: the parsed file, or {} when the file is missing or cannot be
\* read or parsed.
loadMetadata(disk, readOk) == IF readOk THEN disk ELSE <<>>

\* The entry recordCertificate writes at time t.
NewEntry(f, t, webhookSuccess) ==
  [name |-> f, createdAt |-> t, webhookDelivered |-> webhookSuccess,
   webhookDeliveredAt |-> IF webhookSuccess THEN << t >> ELSE <<>>]

\* The entry after recordWebhookDelivery at time t.
DeliveredEntry(e, t) ==
  [e EXCEPT !.webhookDelivered = TRUE, !.webhookDeliveredAt = << t >>]

\* shouldDeleteFile(fileData, cutoffTime).delete, evaluated at time t: delivered
\* and more than the retention window since delivery, or else created before
\* cutoffTime.
shouldDeleteFileNever(e, cutoffTime, t) == FALSE

shouldDeleteFile(e, cutoffTime, t) ==
  IF /\ e.webhookDelivered
     /\ e.webhookDeliveredAt # <<>>
     /\ t > Head(e.webhookDeliveredAt \o << 0 >>) + RetentionHours
  THEN TRUE
  ELSE e.createdAt < cutoffTime

\* deleteFile(...).success: a file that is already gone counts as deleted.
deleteFileReportsSuccess(exists, unlinkOk) == TRUE

deleteFile(exists, unlinkOk) == ~exists \/ unlinkOk

\* cleanupOrphanedMetadata: the entries whose file exists.
cleanupOrphanedMetadataNone(md, files) == md

cleanupOrphanedMetadata(md, files) == SelectSeq(md, LAMBDA e : files[e.name] # 0)

(***************************************************************************)
(* The retention tracker: actions.  A call is cut at least at every await. *)
(***************************************************************************)

\* The record of a call of method op that has just loaded the metadata (or
\* returned at once because cleanup is disabled).
Entered(op, f, ws, readOk) ==
  IF ~enableCleanup
  THEN [IdleCall EXCEPT !.op = op, !.pc = "done", !.filename = f, !.webhookSuccess = ws]
  ELSE [IdleCall EXCEPT !.op = op, !.pc = "loaded", !.filename = f,
                        !.webhookSuccess = ws,
                        !.md = loadMetadata(metadata, readOk),
                        !.loaded = loadMetadata(metadata, readOk),
                        !.failed = ~readOk]

\* Calls are named in the order in which they are entered.
IsNextCall(c) == call[c].pc = "idle" /\ \A q \in Calls : q < c => call[q].pc # "idle"

\* recordCertificate(filename, webhookData, webhookSuccess) up to its await of
\* loadMetadata.
RecordCertificate(c) ==
  /\ IsNextCall(c)
  /\ \E f \in Filenames, ws \in BOOLEAN, readOk \in BOOLEAN :
       call' = [call EXCEPT ![c] = Entered("recordCertificate", f, ws, readOk)]
  /\ UNCHANGED << pageVars, run, nextBm, fs, metadata, now, enableCleanup >>

\* recordCertificate after the await: the entry is set and the file written.
RecordCertificateSave(c) ==
  /\ call[c].pc = "loaded"
  /\ call[c].op = "recordCertificate"
  /\ \E saveOk \in BOOLEAN :
       LET f == call[c].filename
           md == Put(call[c].md, NewEntry(f, now, call[c].webhookSuccess))
       IN /\ metadata' = IF saveOk THEN md ELSE metadata
          /\ call' = [call EXCEPT ![c] = [@ EXCEPT !.md = md, !.pc = "done",
                                                    !.failed = @ \/ ~saveOk]]
  /\ UNCHANGED << pageVars, run, nextBm, fs, now, enableCleanup >>

\* recordWebhookDelivery(filename) up to its await of loadMetadata.
RecordWebhookDelivery(c) ==
  /\ IsNextCall(c)
  /\ \E f \in Filenames, readOk \in BOOLEAN :
       call' = [call EXCEPT ![c] = Entered("recordWebhookDelivery", f, FALSE, readOk)]
  /\ UNCHANGED << pageVars, run, nextBm, fs, metadata, now, enableCleanup >>

\* recordWebhookDelivery after the await: if the entry is there, it is marked
\* delivered and the file written.
RecordWebhookDeliverySave(c) ==
  /\ call[c].pc = "loaded"
  /\ call[c].op = "recordWebhookDelivery"
  /\ LET f == call[c].filename
     IN IF f \in Names(call[c].md)
        THEN \E saveOk \in BOOLEAN :
               LET md == Put(call[c].md, DeliveredEntry(Lookup(call[c].md, f), now))
               IN /\ metadata' = IF saveOk THEN md ELSE metadata
                  /\ call' = [call EXCEPT ![c] = [@ EXCEPT !.md = md, !.pc = "done",
                                                            !.failed = @ \/ ~saveOk]]
        ELSE /\ call' = [call EXCEPT ![c] = [@ EXCEPT !.pc = "done"]]
             /\ UNCHANGED metadata
  /\ UNCHANGED << pageVars, run, nextBm, fs, now, enableCleanup >>

\* runCleanup up to its await of loadMetadata.
RunCleanup(c) ==
  /\ IsNextCall(c)
  /\ \E readOk \in BOOLEAN :
       call' = [call EXCEPT ![c] = Entered("runCleanup", NoFile, FALSE, readOk)]
  /\ UNCHANGED << pageVars, run, nextBm, fs, metadata, now, enableCleanup >>

\* runCleanup after the await: now, cutoffTime, and the loop's list of entries.
RunCleanupBegin(c) ==
  /\ call[c].pc = "loaded"
  /\ call[c].op = "runCleanup"
  /\ call' = [call EXCEPT ![c] = [@ EXCEPT !.cutoffTime = now - RetentionHours,
                                           !.todo = call[c].md,
                                           !.startedAt = now, !.files0 = fs,
                                           !.pc = "loop"]]
  /\ UNCHANGED << pageVars, run, nextBm, fs, metadata, now, enableCleanup >>

\* One iteration of runCleanup's loop: shouldDeleteFile, and for an entry to
\* delete, deleteFile and the removal of the entry.
RunCleanupEntry(c) ==
  /\ call[c].pc = "loop"
  /\ call[c].todo # <<>>
  /\ LET e == Head(call[c].todo)
         rest == [call[c] EXCEPT !.todo = Tail(@)]
     IN IF shouldDeleteFile(e, call[c].cutoffTime, now)
        THEN \E unlinkOk \in BOOLEAN :
               /\ fs' = IF unlinkOk THEN [fs EXCEPT ![e.name] = 0] ELSE fs
               /\ call' = [call EXCEPT ![c] =
                             IF deleteFile(fs[e.name] # 0, unlinkOk)
                             THEN [rest EXCEPT !.md = Remove(@, e.name),
                                               !.cleaned = @ + 1]
                             ELSE [rest EXCEPT !.errors = @ + 1, !.failed = TRUE]]
        ELSE /\ call' = [call EXCEPT ![c] = rest]
             /\ UNCHANGED fs
  /\ UNCHANGED << pageVars, run, nextBm, metadata, now, enableCleanup >>

\* After the loop: cleanupOrphanedMetadata.
RunCleanupOrphans(c) ==
  /\ call[c].pc = "loop"
  /\ call[c].todo = <<>>
  /\ call' = [call EXCEPT ![c] =
                [@ EXCEPT !.md = cleanupOrphanedMetadata(call[c].md, fs), !.pc = "save"]]
  /\ UNCHANGED << pageVars, run, nextBm, fs, metadata, now, enableCleanup >>

\* The end of runCleanup: saveMetadata; a failure is caught and counted.
RunCleanupSave(c) ==
  /\ call[c].pc = "save"
  /\ \E saveOk \in BOOLEAN :
       /\ metadata' = IF saveOk THEN call[c].md ELSE metadata
       /\ call' = [call EXCEPT ![c] = [@ EXCEPT !.pc = "done",
                                                !.errors = IF saveOk THEN @ ELSE @ + 1,
                                                !.failed = @ \/ ~saveOk]]
  /\ UNCHANGED << pageVars, run, nextBm, fs, now, enableCleanup >>

\* The call has returned to its caller.
Return(c) ==
  /\ call[c].pc = "done"
  /\ call' = [call EXCEPT ![c] = IdleCall]
  /\ UNCHANGED << pageVars, run, nextBm, fs, metadata, now, enableCleanup >>

\* An hour passes.
Tick ==
  /\ now < MaxTime
  /\ now' = now + 1
  /\ UNCHANGED << pageVars, run, nextBm, fs, metadata, call, enableCleanup >>

\* The tracker with its configuration, and certificate files that earlier
\* runs left in the download directory.
InitMeta ==
  /\ run = [r \in Runs |-> IdleRun]
  /\ nextBm = 0
  /\ fs \in [Filenames -> {0, 1}]
  /\ metadata = <<>>
  /\ now = 0
  /\ call = [c \in Calls |-> IdleCall]
  /\ enableCleanup \in BOOLEAN
  /\ dom = NoDom
  /\ act = IdleAct
  /\ dlg = NoDialogs
  /\ cust = NoCustomerPage
  /\ hook = NoPost
  /\ cli = NoMain

\* The steps of a call once it is entered.
CallStep(c) ==
  \/ RecordCertificateSave(c)
  \/ RecordWebhookDeliverySave(c)
  \/ RunCleanupBegin(c)
  \/ RunCleanupEntry(c)
  \/ RunCleanupOrphans(c)
  \/ RunCleanupSave(c)
  \/ Return(c)

\* A caller that awaits each call before it makes the next.
NoCallInProgress == \A c \in Calls : call[c].pc = "idle"

NextMeta ==
  \/ \E c \in Calls :
       \/ NoCallInProgress /\ RecordCertificate(c)
       \/ NoCallInProgress /\ RecordWebhookDelivery(c)
       \/ NoCallInProgress /\ RunCleanup(c)
       \/ CallStep(c)
  \/ Tick

SpecMeta == InitMeta /\ [][NextMeta]_vars

\* Callers that do not await each other (requests in progress at once in one
\* process, or several processes on one download directory).  Calls overlap
\* for far less than an hour: the clock stands still while they do.
NextMetaConc ==
  \E c \in Calls :
    \/ RecordCertificate(c)
    \/ RecordWebhookDelivery(c)
    \/ RunCleanup(c)
    \/ CallStep(c)

SpecMetaConc == InitMeta /\ [][NextMetaConc]_vars


(***************************************************************************)
(* The page-interaction helpers: pure parts.                               *)
(***************************************************************************)

\* element.isVisible() of what a probe found.
Visible(status) == status \in {"disabled", "enabled"}

\* if (isVisible && isEnabled), where isEnabled is true without a look at the
\* element when ensureEnabled is false.
ActionableIfPresent(status, ensureEnabled) == status # "timeout"

Actionable(status, ensureEnabled) ==
  Visible(status) /\ (~ensureEnabled \/ status = "enabled")

\* One iteration of clickFirstVisible's loop ends in `return {selector,
\* clicked: true}`: the element is visible, enabled if that is required, and
\* click() works or, with forceFallback, the click through evaluate does.
Clicks(status, click, ensureEnabled, forceFallback) ==
  /\ Actionable(status, ensureEnabled)
  /\ (click = "clicks" \/ (forceFallback /\ click = "forced"))

\* The clicks one iteration of clickFirstVisible's loop makes on the element:
\* element.click() when the element passed the test, and then el.click()
\* through evaluate when click() threw an intercepts/viewport error,
\* forceFallback is set and document.querySelector finds the element.
ClickAttempts(status, click, ensureEnabled, forceFallback) ==
  IF ~Actionable(status, ensureEnabled) THEN <<>>
  ELSE << "click" >> \o (IF forceFallback /\ click = "forced" THEN << "force" >> ELSE <<>>)

\* The catch of element.click() goes on to frame.evaluate: forceFallback is
\* set and the message of the error speaks of the viewport or of an element
\* that intercepts the click.
ForceTriedOnAnyError(click, forceFallback) == forceFallback /\ click # "clicks"

ForceTried(click, forceFallback) ==
  forceFallback /\ click \in {"forced", "forceFails"}

\* The loop `for (const selector of selectors)` is over after iteration j of n.
LoopOverAtOnce(j, n) == TRUE

LoopOver(j, n) == j = n

\* element.fill(value) / field.fill(value): the field's text is replaced.
FillAppends(content, value) == content \o value

Fill(content, value) == value

\* What the form shows for a text that was filled in.
FormShows(reformat, text) == IF reformat = "upper" THEN ToUpperCase(text) ELSE text

\* The text that arrives when the page interferes with a fill: the last
\* character is dropped.
Garbled(text) == SubSeq(text, 1, Len(text) - 1)

\* The operations of one write of the value, by method.
WriteOps(op, clear) ==
  IF op = "fillInput" THEN << "click", "selectText", "fill" >>
  ELSE IF clear THEN << "clear", "fill" >> ELSE << "fill" >>

Returned(a) == [a EXCEPT !.pc = "done", !.result = [NoResult EXCEPT !.kind = "return"]]

Threw(a, message, selectors) ==
  [a EXCEPT !.pc = "done",
            !.result = [NoResult EXCEPT !.kind = "throw", !.message = message,
                                        !.selectors = selectors]]

\* The call after the iteration for selector j succeeded.
Located(a, j) ==
  CASE a.op = "clickFirstVisible" ->
         [a EXCEPT !.pc = "done", !.found = j,
                   !.result = [NoResult EXCEPT !.kind = "return",
                                               !.selector = a.selectors[j]]]
    [] a.op = "getFirstVisible" ->
         [a EXCEPT !.pc = "done", !.found = j,
                   !.result = [NoResult EXCEPT !.kind = "return",
                                               !.element = dom.element[j]]]
    [] OTHER -> [a EXCEPT !.pc = "write", !.found = j]

\* The call after the loop ended without a success.
Exhausted(a) ==
  CASE a.op = "clickFirstVisible" ->
         Threw(a, "Could not click any element with selectors", a.selectors)
    [] a.op = "getFirstVisible" ->
         [a EXCEPT !.pc = "done",
                   !.result = [NoResult EXCEPT !.kind = "return", !.element = "null"]]
    [] OTHER -> Threw(a, "Could not find input with selectors", a.selectors)

(***************************************************************************)
(* The page-interaction helpers: actions.                                  *)
(***************************************************************************)

\* clickFirstVisible(frame, selectors, {ensureEnabled, forceFallback}) is called.
ClickFirstVisible ==
  /\ act.pc = "idle"
  /\ \E sels \in SelectorLists, ee \in BOOLEAN, ff \in BOOLEAN :
       \E st \in [1..Len(sels) -> Statuses], ck \in [1..Len(sels) -> ClickOutcomes] :
         /\ act' = [IdleAct EXCEPT !.op = "clickFirstVisible", !.pc = "locate",
                                   !.selectors = sels, !.ensureEnabled = ee,
                                   !.forceFallback = ff]
         /\ dom' = [NoDom EXCEPT !.status = st, !.click = ck,
                                 !.element = [j \in 1..Len(sels) |-> "el1"]]
  /\ UNCHANGED << run, nextBm, fs, trackerVars, dlg, cust, hook, cli >>

\* getFirstVisible(frame, selectors) is called.
GetFirstVisible ==
  /\ act.pc = "idle"
  /\ \E sels \in SelectorLists :
       \E st \in [1..Len(sels) -> Statuses], el \in [1..Len(sels) -> Elements] :
         /\ act' = [IdleAct EXCEPT !.op = "getFirstVisible", !.pc = "locate",
                                   !.selectors = sels]
         /\ dom' = [NoDom EXCEPT !.status = st, !.element = el,
                                 !.click = [j \in 1..Len(sels) |-> "clicks"]]
  /\ UNCHANGED << run, nextBm, fs, trackerVars, dlg, cust, hook, cli >>

\* The field a write call works on: its text, whether the form reformats
\* what is filled in, and whether the page interferes with the first fill.
Fields ==
  [content : {<<>>, << "x" >>}, reformat : {"none", "upper"}, glitch : BOOLEAN]

\* fillInput(frame, selectors, value, {verify}) is called.
FillInput ==
  /\ act.pc = "idle"
  /\ \E sels \in SelectorLists, v \in Values, vf \in BOOLEAN, fld \in Fields :
       \E st \in [1..Len(sels) -> {"timeout", "hidden", "enabled"}] :
         /\ act' = [IdleAct EXCEPT !.op = "fillInput", !.pc = "locate",
                                   !.selectors = sels, !.value = v, !.verify = vf]
         /\ dom' = [status |-> st, click |-> [j \in 1..Len(sels) |-> "clicks"],
                    element |-> [j \in 1..Len(sels) |-> "el1"],
                    content |-> fld.content, reformat |-> fld.reformat,
                    glitch |-> fld.glitch]
  /\ UNCHANGED << run, nextBm, fs, trackerVars, dlg, cust, hook, cli >>

\* typeIntoField(selector, value, {clear, verify}) is called.
TypeIntoField ==
  /\ act.pc = "idle"
  /\ \E v \in Values, vf \in BOOLEAN, cl \in BOOLEAN, fld \in Fields :
       /\ act' = [IdleAct EXCEPT !.op = "typeIntoField", !.pc = "waitFor",
                                 !.value = v, !.verify = vf, !.clear = cl]
       /\ dom' = [status |-> <<>>, click |-> <<>>, element |-> <<>>,
                  content |-> fld.content, reformat |-> fld.reformat,
                  glitch |-> fld.glitch]
  /\ UNCHANGED << run, nextBm, fs, trackerVars, dlg, cust, hook, cli >>

\* One iteration of the loop over the selectors (clickFirstVisible,
\* getFirstVisible, and getFirstVisible inside fillInput); after the last
\* one, the throw or the `return null`.
TrySelector ==
  /\ act.pc = "locate"
  /\ LET j == act.i
         made == IF act.op = "clickFirstVisible"
                 THEN ClickAttempts(dom.status[j], dom.click[j], act.ensureEnabled,
                                    act.forceFallback)
                 ELSE <<>>
         evaluates == /\ act.op = "clickFirstVisible"
                      /\ Actionable(dom.status[j], act.ensureEnabled)
                      /\ ForceTried(dom.click[j], act.forceFallback)
         a == [act EXCEPT !.tried = Append(@, act.selectors[j]),
                          !.clicked = @ \o [k \in 1..Len(made) |->
                                              [index |-> j, how |-> made[k]]],
                          !.forced = IF evaluates THEN Append(@, j) ELSE @]
         hit == IF act.op = "clickFirstVisible"
                THEN Clicks(dom.status[j], dom.click[j], act.ensureEnabled,
                            act.forceFallback)
                ELSE Visible(dom.status[j])
     IN act' = IF hit THEN Located(a, j)
               ELSE IF LoopOver(j, Len(act.selectors)) THEN Exhausted(a)
               ELSE [a EXCEPT !.i = j + 1]
  /\ UNCHANGED << run, nextBm, fs, trackerVars, dom, dlg, cust, hook, cli >>

\* typeIntoField: field.waitFor() and field.waitFor({state: 'visible'}).
WaitForField ==
  /\ act.pc = "waitFor"
  /\ \E ok \in BOOLEAN :
       act' = IF ok THEN [act EXCEPT !.pc = "write"]
              ELSE Threw([act EXCEPT !.faulted = TRUE], BrowserError.message, <<>>)
  /\ UNCHANGED << run, nextBm, fs, trackerVars, dom, dlg, cust, hook, cli >>

\* The write of the value into the field at the point pc of the call, and
\* where the call goes when the write worked.
WriteValue(pc, thenPc) ==
  /\ act.pc = pc
  /\ \E ok \in BOOLEAN :
       IF ok
       THEN LET ops == WriteOps(act.op, act.clear \/ pc = "retry")
                text == Fill(IF ops[1] = "clear" THEN <<>> ELSE dom.content, act.value)
                a == [act EXCEPT !.io = @ \o ops, !.pc = thenPc]
            IN /\ dom' = [dom EXCEPT !.content = FormShows(dom.reformat,
                                                  IF dom.glitch THEN Garbled(text)
                                                  ELSE text),
                                     !.glitch = FALSE]
               /\ act' = IF thenPc = "done" THEN Returned(a) ELSE a
       ELSE /\ act' = Threw([act EXCEPT !.faulted = TRUE], BrowserError.message, <<>>)
            /\ dom' = dom
  /\ UNCHANGED << run, nextBm, fs, trackerVars, dlg, cust, hook, cli >>

\* The first write: typeIntoField's (clear and) fill, fillInput's click,
\* selectText and fill.
FieldWrite == WriteValue("write", IF act.verify THEN "verify" ELSE "done")

\* if (verify): inputValue() is read and compared with the value.
FieldVerify ==
  /\ act.pc = "verify"
  /\ \E ok \in BOOLEAN :
       act' = IF ~ok THEN Threw([act EXCEPT !.faulted = TRUE], BrowserError.message, <<>>)
              ELSE LET a == [act EXCEPT !.io = Append(@, "inputValue")]
                   IN IF dom.content # act.value THEN [a EXCEPT !.pc = "retry"]
                      ELSE Returned(a)
  /\ UNCHANGED << run, nextBm, fs, trackerVars, dom, dlg, cust, hook, cli >>

\* On a mismatch: the value is written once more, and the call returns.
FieldRetryVerified == WriteValue("retry", "verify")

FieldRetry == WriteValue("retry", "done")

NextForm ==
  \/ ClickFirstVisible
  \/ GetFirstVisible
  \/ FillInput
  \/ TypeIntoField
  \/ TrySelector
  \/ WaitForField
  \/ FieldWrite
  \/ FieldVerify
  \/ FieldRetry

SpecForm == Init /\ [][NextForm]_vars

(***************************************************************************)
(* The command-line driver.  runSingleTest returns true or false and never *)
(* throws: its catch turns every error of the run into false, and the      *)
(* close() of its finally block catches its own errors (see CloseThrows).  *)
(***************************************************************************)

\* while (!success && attempt <= maxAttempts), with maxAttempts = retries + 1.
TriesAgainAfterSuccess(success, attempt, retries) == attempt <= retries + 1

TriesAgain(success, attempt, retries) == ~success /\ attempt <= retries + 1

\* main() is entered with the arguments of the command line.
Main ==
  /\ cli.pc = "idle"
  /\ \E repeat \in 0..MaxRepeat, retries \in 0..MaxRetries :
       cli' = [NoMain EXCEPT !.pc = "for", !.repeat = repeat, !.retries = retries,
                             !.i = 1]
  /\ UNCHANGED << run, nextBm, fs, trackerVars, dom, act, dlg, cust, hook >>

\* for (let i = 1; i <= repeat; i++): the test of the loop, the start of an
\* iteration and, after the loop, process.exit(failureCount > 0 ? 1 : 0).
ForIteration ==
  /\ cli.pc = "for"
  /\ cli' = IF cli.i <= cli.repeat
            THEN [cli EXCEPT !.pc = "while", !.success = FALSE, !.attempt = 1,
                             !.calls = Append(@, <<>>)]
            ELSE [cli EXCEPT !.pc = "exit",
                             !.exit = IF cli.failureCount > 0 THEN 1 ELSE 0]
  /\ UNCHANGED << run, nextBm, fs, trackerVars, dom, act, dlg, cust, hook >>

\* The while loop of an iteration: one more call of runSingleTest, or the
\* count of the iteration and i++.
WhileNotSuccess ==
  /\ cli.pc = "while"
  /\ IF TriesAgain(cli.success, cli.attempt, cli.retries)
     THEN \E result \in BOOLEAN :
            cli' = [cli EXCEPT !.success = result, !.attempt = @ + 1,
                               !.calls[cli.i] = Append(@, result)]
     ELSE cli' = [cli EXCEPT
                    !.pc = "for", !.i = @ + 1,
                    !.successCount = IF cli.success THEN @ + 1 ELSE @,
                    !.failureCount = IF cli.success THEN @ ELSE @ + 1,
                    !.verdicts = Append(@, IF cli.success THEN "success" ELSE "failure")]
  /\ UNCHANGED << run, nextBm, fs, trackerVars, dom, act, dlg, cust, hook >>

NextCli ==
  \/ Main
  \/ ForIteration
  \/ WhileNotSuccess

SpecCli == Init /\ [][NextCli]_vars

(***************************************************************************)
(* BrowserManager's operations on one selector, with the page open.        *)
(***************************************************************************)

BrowserManagerOps == { "waitForSelector", "clickElement", "fillField", "selectOption" }

\* What the operation does with the element once waitForSelector returned it.
ElementOps(op) ==
  CASE op = "clickElement" -> << "click" >>
    [] op = "fillField" -> << "clear", "fill" >>
    [] op = "selectOption" -> << "selectOption" >>
    [] OTHER -> <<>>

\* One of the operations is called.
CallBrowserManager ==
  /\ act.pc = "idle"
  /\ \E op \in BrowserManagerOps, j \in 1..Len(Catalogue) :
       \E v \in IF op \in {"fillField", "selectOption"} THEN Values ELSE {<<>>} :
         act' = [IdleAct EXCEPT !.op = op, !.pc = "waitForSelector",
                                !.selectors = << Catalogue[j] >>, !.value = v]
  /\ dom' = NoDom
  /\ UNCHANGED << run, nextBm, fs, trackerVars, dlg, cust, hook, cli >>

\* BrowserManager.waitForSelector: page.waitForSelector returns the element or
\* throws; the catch takes the error_<selector> screenshot and rethrows.
\* takeScreenshot rethrows what page.screenshot throws, and that error then
\* leaves the catch in place of the first one.
waitForSelector ==
  /\ act.pc = "waitForSelector"
  /\ \E found \in BOOLEAN, shot \in BOOLEAN :
       act' = IF found
              THEN IF act.op = "waitForSelector" THEN Returned([act EXCEPT !.found = 1])
                   ELSE [act EXCEPT !.found = 1, !.pc = "element"]
              ELSE LET a == [act EXCEPT !.faulted = TRUE, !.cause = BrowserError.message]
                   IN  IF shot
                       THEN Threw([a EXCEPT !.shots = Append(@, "error")],
                                  BrowserError.message, <<>>)
                       ELSE Threw(a, ScreenshotError.message, <<>>)
  /\ UNCHANGED << run, nextBm, fs, trackerVars, dom, dlg, cust, hook, cli >>

\* clickElement, fillField, selectOption after waitForSelector: the calls on
\* the element; the catch logs the error and rethrows it.
ElementOperation ==
  /\ act.pc = "element"
  /\ \E n \in 0..Len(ElementOps(act.op)) :
       LET a == [act EXCEPT !.io = SubSeq(ElementOps(act.op), 1, n)]
       IN  act' = IF n = Len(ElementOps(act.op)) THEN Returned(a)
                  ELSE Threw([a EXCEPT !.faulted = TRUE,
                                       !.cause = "Element is not attached to the DOM"],
                             "Element is not attached to the DOM", <<>>)
  /\ UNCHANGED << run, nextBm, fs, trackerVars, dom, dlg, cust, hook, cli >>

NextBrowser ==
  \/ CallBrowserManager
  \/ waitForSelector
  \/ ElementOperation

SpecBrowser == Init /\ [][NextBrowser]_vars


(***************************************************************************)
(* Properties.                                                             *)
(***************************************************************************)

IsPrefix(s, t) == Len(s) <= Len(t) /\ \A i \in 1..Len(s) : s[i] = t[i]

Ended(rc) == rc.pc \in {"finally", "handler", "done"}

\* A flow step of the run threw (and not initialize, which precedes the flow).
FlowFailed(rc) == rc.raised # NoError /\ Len(rc.begun) >= 1

\* C1: in every run the flow steps begin in the fixed order navigateToForm,
\* addAllProducts, fillInstallationDate, selectResidentialOption, clickNext,
\* fillCustomerDetails, fillDealerBuilderInfo, completeRegistration; a step
\* begins only after the previous one finished without error, and no step is
\* entered twice.
C1_StepsInFixedOrder ==
  \A r \in Runs :
    /\ IsPrefix(run[r].begun,
                << "navigateToForm", "addAllProducts", "fillInstallationDate",
                   "selectResidentialOption", "clickNext", "fillCustomerDetails",
                   "fillDealerBuilderInfo", "completeRegistration" >>)
    /\ Len(run[r].begun) <= run[r].okSteps + 1
    /\ run[r].okSteps <= Len(run[r].begun)

\* A run that has begun, and finished, all eight steps.
C1_Witness ==
  \E r \in Runs : Len(run[r].begun) = 8 /\ run[r].okSteps = 8 /\ run[r].pc = "done"

\* Some browser interaction of the run threw.
BrowserFailed(rc) ==
  rc.raised = BrowserError \/ rc.outcome.message = ScreenshotError.message

\* The form rejected a serial of the run.
SerialRejected(rc) ==
  \E i \in 1..Len(rc.seen) : rc.seen[i] \in {"already", "invalid", "both"}

\* C2: for a valid request with customer (and dealer) present and N >= 1
\* serials none of which the form rejects, through the webhook or the CLI
\* driver, a run in which every browser interaction succeeds reaches the
\* download step and returns a success result with the non-empty filename of
\* the saved certificate; and with a customer a success result is returned
\* only if all steps up to and including the certificate save completed.
C2_ValidRequestSucceeds ==
  \A r \in Runs :
    /\ ( /\ Ended(run[r])
         /\ run[r].request.customer /\ run[r].request.dealer
         /\ Len(run[r].request.products) >= 1
         /\ ~BrowserFailed(run[r]) /\ ~SerialRejected(run[r]) )
       => /\ run[r].outcome.kind = "return" /\ run[r].outcome.success
          /\ run[r].outcome.filename # NoFile
          /\ run[r].outcome.filename = run[r].certName
    /\ ( run[r].outcome.kind = "return" /\ run[r].outcome.success
         /\ run[r].request.customer )
       => run[r].okSteps = 8 /\ run[r].certName # NoFile

\* C3: when the already-registered message is visible after the serial at
\* position i was submitted, the run is aborted by an ALREADY_REGISTERED
\* error carrying that serial, no product after i is filled or submitted, and
\* no later flow step is started.
C3_AlreadyRegisteredAborts ==
  \A r \in Runs :
    \A i \in 1..Len(run[r].seen) :
      run[r].seen[i] \in {"already", "both"} =>
        /\ run[r].raised.type = "ALREADY_REGISTERED"
        /\ run[r].raised.serial = run[r].formData.products[i]
        /\ run[r].raised.serial = run[r].submitted[i]
        /\ Len(run[r].submitted) = i
        /\ run[r].begun = << "navigateToForm", "addAllProducts" >>
        /\ run[r].pc \in {"catch", "finally", "handler", "done"}
        /\ (run[r].driver = "webhook" =>
              /\ run[r].outcome.kind = "throw"
              /\ run[r].outcome.type = "ALREADY_REGISTERED"
              /\ run[r].outcome.serial = run[r].formData.products[i])

\* A run with two products whose second serial was already registered, ended.
C3_Witness ==
  \E r \in Runs :
    /\ Len(run[r].seen) = 2 /\ run[r].seen[2] = "already"
    /\ Len(run[r].formData.products) = 2
    /\ run[r].pc = "done"

\* C4: when the invalid-serial message (and not the already-registered one) is
\* visible after a serial was submitted, the run is aborted by an
\* INVALID_SERIAL error carrying that serial, and what the run boundary
\* reports to its caller has that error type.
C4_InvalidSerialReported ==
  \A r \in Runs :
    \A i \in 1..Len(run[r].seen) :
      run[r].seen[i] = "invalid" =>
        /\ run[r].raised.type = "INVALID_SERIAL"
        /\ run[r].raised.serial = run[r].formData.products[i]
        /\ (Ended(run[r]) => run[r].outcome.type = "INVALID_SERIAL")

\* C5: once a flow step of a run has thrown, that run begins no step again
\* (neither the failed one nor a later one) and submits no further serial.
C5_AbortIsFinal ==
  [][ \A r \in Runs :
        (run[r].raised # NoError /\ run'[r].pc # "forgotten") =>
          /\ run'[r].begun = run[r].begun
          /\ run'[r].submitted = run[r].submitted
          /\ run'[r].raised = run[r].raised
          /\ run'[r].pc \in {"catch", "finally", "handler", "done"} ]_vars

\* A CLI run whose fourth step threw, after it has returned to its caller.
C5_Witness ==
  \E r \in Runs :
    /\ run[r].driver = "cli" /\ run[r].raised # NoError
    /\ Len(run[r].begun) = 4 /\ run[r].okSteps = 3
    /\ run[r].pc = "done"

\* C6: whenever a flow step fails, runFirstPageAutomation returns (and does not
\* throw) a result with success = false whose error type is the raised error's
\* type, or AUTOMATION_ERROR when it has none, and whose message is the raised
\* error's message.
C6_FailureResultReturned ==
  \A r \in Runs :
    (run[r].driver = "cli" /\ FlowFailed(run[r]) /\ Ended(run[r])) =>
      /\ run[r].outcome.kind = "return"
      /\ ~run[r].outcome.success
      /\ run[r].outcome.type =
           (IF run[r].raised.type = "" THEN "AUTOMATION_ERROR" ELSE run[r].raised.type)
      /\ run[r].outcome.message = run[r].raised.message

\* C7: in every run that ends in failure, through either run boundary, the
\* diagnostic screenshot has been captured when the failure is reported.
C7_ScreenshotBeforeFailureReported ==
  \A r \in Runs :
    (FlowFailed(run[r]) /\ Ended(run[r])) => "error_state" \in run[r].shots

ClosePosition(k) == CASE k = "page" -> 1 [] k = "context" -> 2 [] k = "browser" -> 3

\* C8: BrowserManager.close() closes the page, then the context, then the
\* browser, in that order (a resource is closed only after the earlier ones
\* that exist), and it returns normally whatever its close operations do.
C8_CloseOrderAndNoThrow ==
  \A r \in Runs :
    /\ run[r].closeResult # "threw"
    /\ (run[r].closeCalls > 0 => run[r].closeResult = "returned")
    /\ \A i, j \in 1..Len(run[r].closeLog) :
         i < j => ClosePosition(run[r].closeLog[i]) < ClosePosition(run[r].closeLog[j])
    /\ (run[r].res.browser = "closed" =>
          run[r].res.context # "open" /\ run[r].res.page # "open")
    /\ (run[r].res.context = "closed" => run[r].res.page # "open")

\* close() returned although closing the context threw, after the page was closed.
C8_Witness ==
  \E r \in Runs :
    /\ run[r].closeResult = "returned"
    /\ run[r].closeLog = << "page", "context" >>
    /\ run[r].res.page = "closed" /\ run[r].res.context = "open"

\* C9: every run that initializes a browser session calls close on it exactly
\* once before control returns to the caller, on the success path and on every
\* failure path, and no two runs have the same BrowserManager.
C9_CloseOncePerRun ==
  /\ \A r \in Runs :
       /\ run[r].closeCalls <= 1
       /\ (run[r].initCalled /\ run[r].pc \in {"handler", "done"}) => run[r].closeCalls = 1
       /\ (run[r].pc # "idle" => run[r].bm # 0)
  /\ \A r1, r2 \in Runs :
       (r1 # r2 /\ run[r1].bm # 0 /\ run[r2].bm # 0) => run[r1].bm # run[r2].bm

\* Two overlapping runs, one that saved its certificate and one that failed,
\* both back at their callers.
C9_Witness ==
  \E r1, r2 \in Runs :
    /\ run[r1].pc = "done" /\ run[r1].certName # NoFile /\ run[r1].closeCalls = 1
    /\ run[r2].pc = "done" /\ run[r2].raised # NoError /\ run[r2].closeCalls = 1
    /\ run[r2].initCalled

\* C10: the certificate file a run has saved is not overwritten or replaced by
\* another run while the run has not yet handed it back to its caller, and the
\* form data of a run is what its own request gave.
C10_CertificateNotOverwritten ==
  \A r \in Runs :
    /\ (run[r].certName # NoFile /\ run[r].pc # "done") => fs[run[r].certName] = r
    /\ (run[r].driver = "cli" => run[r].formData = Constructor(run[r].request))

(***************************************************************************)
(* Properties of the retention tracker.                                    *)
(***************************************************************************)

\* A call that has run to its end with cleanup enabled and without a failed
\* file operation (it is still known until it returns to its caller).
Completed(c) == call[c].pc = "done" /\ enableCleanup /\ ~call[c].failed

\* The runCleanup call q took the entry of f out of what it loaded.
RemovedBy(q, f) ==
  /\ call[q].op = "runCleanup"
  /\ f \in Names(call[q].loaded) \ Names(call[q].md)

\* C11: when calls of recordCertificate, recordWebhookDelivery and runCleanup
\* overlap, no update is lost: once all of them have completed, the metadata
\* file has the entry of every recordCertificate call and the delivered flag
\* of every recordWebhookDelivery call that found its entry, unless a
\* runCleanup call removed the entry (or, for the flag, a recordCertificate
\* call recorded the file anew as undelivered).
C11_NoUpdateLost ==
  (\A c \in Calls : Completed(c)) =>
    \A c \in Calls :
      LET f == call[c].filename
          removed == \E q \in Calls : RemovedBy(q, f)
      IN /\ call[c].op = "recordCertificate" => (f \in Names(metadata) \/ removed)
         /\ (call[c].op = "recordWebhookDelivery" /\ f \in Names(call[c].md)) =>
              \/ removed
              \/ f \in Names(metadata) /\ Lookup(metadata, f).webhookDelivered
              \/ \E q \in Calls : /\ call[q].op = "recordCertificate"
                                  /\ call[q].filename = f
                                  /\ ~call[q].webhookSuccess

\* A runCleanup pass that has run to its end.
CleanupCompleted(c) == call[c].op = "runCleanup" /\ Completed(c)

\* C12: for an entry with webhookDelivered = false, a runCleanup pass (with
\* cleanup enabled and no failing file operation) deletes the file and removes
\* the entry when the creation time is more than the retention window before
\* the pass, and keeps the file and the unchanged entry when it is within the
\* window.
C12_UndeliveredRetention ==
  \A c \in Calls :
    CleanupCompleted(c) =>
      \A i \in 1..Len(call[c].loaded) :
        LET e == call[c].loaded[i]
        IN ~e.webhookDelivered =>
             IF call[c].startedAt - e.createdAt > RetentionHours
             THEN fs[e.name] = 0 /\ e.name \notin Names(metadata)
             ELSE call[c].files0[e.name] # 0 =>
                    /\ fs[e.name] # 0
                    /\ e.name \in Names(metadata)
                    /\ Lookup(metadata, e.name) = e

\* A pass that found an undelivered entry older than the window, whose file
\* was on disk, and an undelivered entry within the window, whose file is
\* still there.
C12_Witness ==
  \E c \in Calls :
    /\ CleanupCompleted(c)
    /\ \E i, j \in 1..Len(call[c].loaded) :
         LET old == call[c].loaded[i]
             young == call[c].loaded[j]
         IN /\ ~old.webhookDelivered /\ ~young.webhookDelivered
            /\ call[c].startedAt - old.createdAt > RetentionHours
            /\ call[c].files0[old.name] # 0 /\ fs[old.name] = 0
            /\ call[c].startedAt - young.createdAt <= RetentionHours
            /\ fs[young.name] # 0 /\ young.name \in Names(metadata)

\* C13: a delivered entry whose delivery time is within the retention window
\* is kept by runCleanup, with its file, whatever its creation time.
C13_DeliveredAgeFromDelivery ==
  \A c \in Calls :
    CleanupCompleted(c) =>
      \A i \in 1..Len(call[c].loaded) :
        LET e == call[c].loaded[i]
        IN (/\ e.webhookDelivered
            /\ e.webhookDeliveredAt # <<>>
            /\ now - Head(e.webhookDeliveredAt \o << 0 >>) <= RetentionHours
            /\ call[c].files0[e.name] # 0) =>
             fs[e.name] # 0 /\ e.name \in Names(metadata)

\* C14: after a successful run that saved a certificate file, the metadata has
\* an entry keyed by the certificate's filename, and once the webhook handler
\* has sent the certificate the entry is marked delivered, with its time.
C14_CertificateRecorded ==
  \A r \in Runs :
    (run[r].pc = "done" /\ run[r].outcome.success /\ run[r].certName # NoFile) =>
      /\ run[r].certName \in Names(metadata)
      /\ run[r].response.code = "PDF" =>
           /\ Lookup(metadata, run[r].certName).webhookDelivered
           /\ Lookup(metadata, run[r].certName).webhookDeliveredAt # <<>>

\* C15: after a runCleanup pass that completes with cleanup enabled, the saved
\* metadata has no entry whose file is not on disk.
C15_NoOrphanAfterCleanup ==
  \A c \in Calls :
    CleanupCompleted(c) =>
      \A i \in 1..Len(metadata) : fs[metadata[i].name] # 0

\* A pass that loaded an entry which was not due for deletion and whose file
\* was missing, and saved the metadata without it.
C15_Witness ==
  \E c \in Calls :
    /\ CleanupCompleted(c)
    /\ \E i \in 1..Len(call[c].loaded) :
         LET e == call[c].loaded[i]
         IN /\ ~shouldDeleteFile(e, call[c].cutoffTime, now)
            /\ call[c].files0[e.name] = 0
            /\ e.name \notin Names(metadata)
    /\ metadata # <<>>

(***************************************************************************)
(* The dialogs after the final confirmation (completeRegistration).  The   *)
(* current class probes once with handleOverlay; the earlier variant of    *)
(* the class loops over handleDialogs.  Locator.isVisible does not wait:   *)
(* a probe sees what is on screen at that moment.                          *)
(***************************************************************************)

\* The button of the dialog on screen is the one the probe looks for.
OnScreen(d, name) == d.chain # <<>> /\ Head(d.chain) = name

\* A click on the button of the dialog on screen dismisses it; the next dialog
\* of the chain is on screen by the time the following load state is awaited.
Dismissed(d) == [d EXCEPT !.chain = Tail(@), !.log = Append(@, Head(d.chain))]

\* One probe of handleOverlay: the button is clicked when it is visible.  A
\* TimeoutError of the click makes handleOverlay return false, any other error
\* is rethrown and ends completeRegistration.
OverlayProbe(d, name, thenPc, click) ==
  IF ~OnScreen(d, name) THEN [d EXCEPT !.pc = thenPc]
  ELSE IF click = "ok" THEN [Dismissed(d) EXCEPT !.pc = thenPc, !.found = (thenPc = "download")]
  ELSE IF click = "timeout"
       THEN [d EXCEPT !.pc = "download", !.errors = @ + 1, !.raised = @ \cup {click}]
  ELSE [d EXCEPT !.pc = "failed", !.errors = @ + 1, !.raised = @ \cup {click}]

\* One handler of handleDialogs: errors are ignored (ignoreErrors is true).
DialogHandler(d, name, thenPc, click) ==
  IF ~OnScreen(d, name) THEN [d EXCEPT !.pc = thenPc]
  ELSE IF click = "ok" THEN [Dismissed(d) EXCEPT !.pc = thenPc, !.found = TRUE]
  ELSE [d EXCEPT !.pc = thenPc, !.errors = @ + 1, !.raised = @ \cup {click}]

\* The popup of a click on the Installing Contractor button.  d0 is the state
\* before the probe and d1 after it; `listens` says whether the code registers
\* page.once('popup', popup => popup.close()) after the click has resolved.  A
\* popup is closed when a listener is registered at the moment its event fires.
PopupAfterClick(d0, d1, popup, listens) ==
  IF Len(d1.log) = Len(d0.log) THEN d1
  ELSE LET early == popup = "duringClick" /\ d0.listeners > 0
           n == (IF early THEN d0.listeners - 1 ELSE d0.listeners)
                  + (IF listens THEN 1 ELSE 0)
           after == popup = "afterClick" /\ n > 0
       IN  [d1 EXCEPT !.listeners = IF after THEN n - 1 ELSE n,
                      !.popups = @ + (IF popup = "none" THEN 0 ELSE 1),
                      !.unclosed = @ + (IF popup = "none" \/ early \/ after THEN 0 ELSE 1)]

\* The loop of the earlier variant goes on while the last pass found a dialog
\* and fewer than maxAttempts passes were made.
LoopsOnUnbounded(handled, attempts) == handled

LoopsOn(handled, attempts) == handled /\ attempts < MaxAttempts

\* A click on Register or Affirm.  The current class listens for the dialog
\* event only in the handleDialog call that follows the click: a dialog that
\* opens before that has no listener and the browser dismisses it.  The earlier
\* variant looks for the confirmation text on the page.
ButtonClicked(d, name, timing, thenPc) ==
  [d EXCEPT !.pc = thenPc,
            !.steps = @ \o << name >> \o
                      (IF timing # "early" THEN <<>>
                       ELSE IF d.variant = "overlay" THEN << "shown", "dismissed" >>
                       ELSE << "shown" >>),
            !.late = (timing = "late"),
            !.open = (d.open \/ (timing = "early" /\ d.variant = "loop"))]

\* FormInteractions.handleDialog: waits up to its timeout for a dialog event
\* and accepts the dialog when its message contains the expected text; with
\* another message it returns false and leaves the dialog as it is.  A timeout
\* means no dialog, another error is rethrown.
handleDialog(d, acceptOk, matches, thenPc) ==
  LET p == [d EXCEPT !.steps = @ \o << "probe" >>, !.late = FALSE]
  IN  IF ~d.late THEN [p EXCEPT !.pc = thenPc]
      ELSE IF ~matches
           THEN [p EXCEPT !.pc = thenPc, !.steps = @ \o << "other" >>,
                          !.unanswered = @ + 1]
      ELSE IF acceptOk
           THEN [p EXCEPT !.pc = thenPc, !.steps = @ \o << "shown", "confirmed" >>]
      ELSE [p EXCEPT !.pc = "failed", !.steps = @ \o << "shown" >>,
                     !.errors = @ + 1, !.raised = @ \cup {"error"}]

\* The earlier variant: if the confirmation text is visible now, Yes is
\* clicked; any error is caught and the flow goes on.  A window that opens
\* after the look stays on screen.
AddressWindowCheck(d, clickOk, thenPc) ==
  LET p == [d EXCEPT !.steps = @ \o << "probe" >>, !.late = FALSE, !.pc = thenPc]
  IN  IF d.open
      THEN IF clickOk THEN [p EXCEPT !.steps = @ \o << "confirmed" >>, !.open = FALSE]
           ELSE [p EXCEPT !.errors = @ + 1, !.raised = @ \cup {"error"}]
      ELSE IF d.late THEN [p EXCEPT !.steps = @ \o << "shown" >>, !.open = TRUE]
      ELSE p

\* The probe for the address confirmation, in the variant of the class.
AddressProbe(d, ok, matches, thenPc) ==
  IF d.variant = "overlay" THEN handleDialog(d, ok, matches, thenPc)
  ELSE AddressWindowCheck(d, ok, thenPc)

\* completeRegistration is entered; the form's script of dialogs after the
\* final Yes is fixed.
CompleteRegistration ==
  /\ dlg.pc = "idle"
  /\ \E variant \in {"overlay", "loop"}, chain \in Chains :
       dlg' = [NoDialogs EXCEPT !.variant = variant, !.chain = chain,
                                !.initial = chain, !.handled = TRUE,
                                !.pc = "register"]
  /\ UNCHANGED << run, nextBm, fs, trackerVars, dom, act, cust, hook, cli >>

\* The click on Register.
ClickRegister ==
  /\ dlg.pc = "register"
  /\ \E ok \in BOOLEAN, timing \in AddressTimings :
       dlg' = IF ok THEN ButtonClicked(dlg, "Register", timing, "afterRegister")
              ELSE [dlg EXCEPT !.pc = "failed"]
  /\ UNCHANGED << run, nextBm, fs, trackerVars, dom, act, cust, hook, cli >>

\* The address-confirmation probe after Register.
HandleDialogAfterRegister ==
  /\ dlg.pc = "afterRegister"
  /\ \E ok \in BOOLEAN, matches \in BOOLEAN :
       dlg' = AddressProbe(dlg, ok, matches, "affirm")
  /\ UNCHANGED << run, nextBm, fs, trackerVars, dom, act, cust, hook, cli >>

\* The click on Affirm.
ClickAffirm ==
  /\ dlg.pc = "affirm"
  /\ \E ok \in BOOLEAN, timing \in AddressTimings :
       dlg' = IF ok THEN ButtonClicked(dlg, "Affirm", timing, "afterAffirm")
              ELSE [dlg EXCEPT !.pc = "failed"]
  /\ UNCHANGED << run, nextBm, fs, trackerVars, dom, act, cust, hook, cli >>

\* The address-confirmation probe after Affirm.
HandleDialogAfterAffirm ==
  /\ dlg.pc = "afterAffirm"
  /\ \E ok \in BOOLEAN, matches \in BOOLEAN :
       dlg' = AddressProbe(dlg, ok, matches, "yes")
  /\ UNCHANGED << run, nextBm, fs, trackerVars, dom, act, cust, hook, cli >>

\* The click on the final Yes, after which the chain of dialogs begins.
ClickYes ==
  /\ dlg.pc = "yes"
  /\ \E ok \in BOOLEAN :
       dlg' = IF ok
              THEN [ButtonClicked(dlg, "Yes", "none", "yes") EXCEPT
                      !.pc = IF dlg.variant = "overlay" THEN "contractor" ELSE "while"]
              ELSE [dlg EXCEPT !.pc = "failed"]
  /\ UNCHANGED << run, nextBm, fs, trackerVars, dom, act, cust, hook, cli >>

\* handleOverlay: the probe for the Installing Contractor button.
HandleOverlayContractor ==
  /\ dlg.variant = "overlay" /\ dlg.pc = "contractor"
  /\ \E click \in ClickResults, popup \in PopupTimings :
       dlg' = PopupAfterClick(dlg, OverlayProbe(dlg, "contractor", "ok", click), popup, TRUE)
  /\ UNCHANGED << run, nextBm, fs, trackerVars, dom, act, cust, hook, cli >>

\* handleOverlay: the probe for the OK button.
HandleOverlayOk ==
  /\ dlg.variant = "overlay" /\ dlg.pc = "ok"
  /\ \E click \in ClickResults : dlg' = OverlayProbe(dlg, "ok", "selector", click)
  /\ UNCHANGED << run, nextBm, fs, trackerVars, dom, act, cust, hook, cli >>

\* handleOverlay: the probe for the selector handed in by completeRegistration
\* (a button named /installing contractor/i); then handleOverlay returns.
HandleOverlaySelector ==
  /\ dlg.variant = "overlay" /\ dlg.pc = "selector"
  /\ \E click \in ClickResults, popup \in PopupTimings :
       dlg' = PopupAfterClick(dlg, OverlayProbe(dlg, "contractor", "download", click), popup, FALSE)
  /\ UNCHANGED << run, nextBm, fs, trackerVars, dom, act, cust, hook, cli >>

\* The earlier variant: the test of its while loop.
WhileDialogsHandled ==
  /\ dlg.variant = "loop" /\ dlg.pc = "while"
  /\ dlg' = IF LoopsOn(dlg.handled, dlg.attempts)
            THEN [dlg EXCEPT !.pc = "handleContractor", !.found = FALSE]
            ELSE [dlg EXCEPT !.pc = "download"]
  /\ UNCHANGED << run, nextBm, fs, trackerVars, dom, act, cust, hook, cli >>

\* handleDialogs: the handler of the Installing Contractor dialog.
HandleDialogsContractor ==
  /\ dlg.variant = "loop" /\ dlg.pc = "handleContractor"
  /\ \E click \in ClickResults, popup \in PopupTimings :
       dlg' = PopupAfterClick(dlg, DialogHandler(dlg, "contractor", "handleOk", click), popup, TRUE)
  /\ UNCHANGED << run, nextBm, fs, trackerVars, dom, act, cust, hook, cli >>

\* handleDialogs: the handler of the OK dialog; handleDialogs returns
\* dialogFound and the loop counts the pass.  After a pass that handled a
\* dialog the loop takes a screenshot; takeScreenshot rethrows what
\* page.screenshot throws, which ends completeRegistration.
HandleDialogsOk ==
  /\ dlg.variant = "loop" /\ dlg.pc = "handleOk"
  /\ \E click \in ClickResults, shot \in BOOLEAN :
       LET d == DialogHandler(dlg, "ok", "while", click)
       IN  dlg' = [d EXCEPT !.handled = d.found, !.attempts = @ + 1,
                            !.pc = IF d.found /\ ~shot THEN "failed" ELSE @]
  /\ UNCHANGED << run, nextBm, fs, trackerVars, dom, act, cust, hook, cli >>

\* The order in which completeRegistration calls page.waitForEvent('download')
\* and clicks the Download Certificate button.
DownloadOrderClickFirst == << "click", "listen" >>

DownloadOrder == << "listen", "click" >>

\* page.waitForEvent('download') and the awaited click on the Download
\* Certificate button.  The download the click starts fires its event while
\* the click is still awaited or after it; an event that fires with no
\* listener registered is lost.
ClickDownload ==
  /\ dlg.pc = "download"
  /\ \E fired \in {"duringClick", "afterClick"} :
       dlg' = [dlg EXCEPT !.pc = "clicked", !.log = Append(@, "download"),
                          !.dl = DownloadOrder, !.fired = fired,
                          !.event = IF fired = "afterClick" THEN "pending"
                                    ELSE IF DownloadOrder[1] = "listen" THEN "held"
                                    ELSE "missed"]
  /\ UNCHANGED << run, nextBm, fs, trackerVars, dom, act, cust, hook, cli >>

\* const download = await downloadPromise: the promise yields the download
\* whose event the listener received, and times out when there was none.
AwaitDownload ==
  /\ dlg.pc = "clicked"
  /\ dlg' = IF dlg.event = "missed" THEN [dlg EXCEPT !.pc = "failed"]
            ELSE [dlg EXCEPT !.pc = "save", !.event = "held", !.dl = Append(@, "event")]
  /\ UNCHANGED << run, nextBm, fs, trackerVars, dom, act, cust, hook, cli >>

\* await download.saveAs(downloadPath), then return { filename, downloadPath }.
SaveAs ==
  /\ dlg.pc = "save"
  /\ \E ok \in BOOLEAN :
       dlg' = IF ok THEN [dlg EXCEPT !.pc = "returned", !.dl = @ \o << "save", "return" >>]
              ELSE [dlg EXCEPT !.pc = "failed"]
  /\ UNCHANGED << run, nextBm, fs, trackerVars, dom, act, cust, hook, cli >>

NextDialogs ==
  \/ CompleteRegistration
  \/ ClickRegister
  \/ HandleDialogAfterRegister
  \/ ClickAffirm
  \/ HandleDialogAfterAffirm
  \/ ClickYes
  \/ HandleOverlayContractor
  \/ HandleOverlayOk
  \/ HandleOverlaySelector
  \/ WhileDialogsHandled
  \/ HandleDialogsContractor
  \/ HandleDialogsOk
  \/ ClickDownload
  \/ AwaitDownload
  \/ SaveAs

SpecDialogs == Init /\ [][NextDialogs]_vars

\* completeRegistration is one async function: each await settles (the probes
\* do not wait, the clicks have timeouts), so the function keeps running
\* until it returns or throws.
SpecDialogsFair == SpecDialogs /\ WF_vars(NextDialogs)

(***************************************************************************)
(* fillCustomerDetails and fillDealerBuilderInfo on a page whose address   *)
(* lookup fills city and state at a moment of its own choosing.  A step    *)
(* that throws ends the flow step (see DoStep); here every step succeeds.  *)
(***************************************************************************)

\* DaikinAutomation.constructor: this.formData.customer, with the fields the
\* constructor upper-cases.
ConstructorCustomer(customer) ==
  [f \in CustomerFields |->
     IF f \in { "firstName", "lastName", "address1", "city", "stateProvince",
                "zipPostal" }
     THEN ToUpperCase(customer[f]) ELSE customer[f]]

\* The value the automation types into field f: fillDealerBuilderInfo
\* upper-cases four of the dealer fields as it types them.
ValueTyped(c, f) ==
  IF f \in DOMAIN c.data THEN c.data[f]
  ELSE IF f \in { "dealerName", "dealerAddress", "dealerCity", "dealerState" }
  THEN ToUpperCase(c.dealer[f])
  ELSE c.dealer[f]

\* fill (directly or through typeIntoField) of field f: the field holds the
\* value afterwards.
Typed(c, f) ==
  [c EXCEPT !.form[f] = ValueTyped(c, f),
            !.typed = Append(@, [field |-> f, value |-> ValueTyped(c, f),
                                 before |-> c.form[f]]),
            !.pc = @ + 1]

\* A write of field f that throws: the fill did not happen; the field is
\* empty when the clear() before the fill had gone through (fillField, and the
\* retry of typeIntoField), and as it was otherwise.
FailedWriteClearsForm(c, f, cleared) ==
  [c EXCEPT !.form = [g \in DOMAIN @ |-> Blank], !.failures = Append(@, f)]

FailedWrite(c, f, cleared) ==
  [c EXCEPT !.form[f] = IF cleared THEN Blank ELSE @, !.failures = Append(@, f)]

\* The page after the write of field f.  In DaikinAutomation the error leaves
\* the method (abort); fillCustomerInformation catches it and goes on.
Write(c, f, ok, cleared, abort) ==
  IF ok THEN Typed(c, f)
  ELSE [FailedWrite(c, f, cleared) EXCEPT
          !.pc = IF abort THEN Len(FormSteps) + 1 ELSE @ + 1]

AtStep(name) ==
  cust.mode = "daikin" /\ cust.pc \in 1..Len(FormSteps) /\ FormSteps[cust.pc] = name

\* new DaikinAutomation(config, formData) and the call of fillCustomerDetails.
FillCustomerDetails ==
  /\ cust.pc = 0
  /\ \E text \in Texts :
       LET customer == [f \in CustomerFields |-> text]
       IN cust' = [NoCustomerPage EXCEPT
                     !.customer = customer,
                     !.dealer = [f \in DealerFields |-> text],
                     !.data = ConstructorCustomer(customer),
                     !.pc = 1]
  /\ UNCHANGED << run, nextBm, fs, trackerVars, dom, act, dlg, hook, cli >>

\* typeIntoField for firstName, lastName, phone, email, address1.
TypeCustomerField ==
  /\ \E f \in {"firstName", "lastName", "phone", "email", "address1"} : AtStep(f)
  /\ \E ok \in BOOLEAN, cleared \in BOOLEAN :
       cust' = Write(cust, FormSteps[cust.pc], ok, cleared, TRUE)
  /\ UNCHANGED << run, nextBm, fs, trackerVars, dom, act, dlg, hook, cli >>

\* postalField.fill and the click outside the field, which starts the lookup.
FillPostalCode ==
  /\ AtStep("zipPostal")
  /\ \E ok \in BOOLEAN :
       cust' = IF ok THEN [Typed(cust, "zipPostal") EXCEPT !.autofill = "pending"]
               ELSE Write(cust, "zipPostal", FALSE, FALSE, TRUE)
  /\ UNCHANGED << run, nextBm, fs, trackerVars, dom, act, dlg, hook, cli >>

\* The form's address lookup answers: it fills city, state or both with the
\* place it found.
Autofill ==
  /\ cust.autofill = "pending"
  /\ \E fields \in (SUBSET {"city", "stateProvince"}) \ {{}} :
       cust' = [cust EXCEPT !.autofill = "done",
                            !.form = [f \in DOMAIN @ |->
                                        IF f \in fields THEN << "O", "N" >> ELSE @[f]]]
  /\ UNCHANGED << run, nextBm, fs, trackerVars, dom, act, dlg, hook, cli >>

\* waitForTimeout(1000)
PauseForAutofill ==
  /\ AtStep("pause")
  /\ cust' = [cust EXCEPT !.pc = @ + 1]
  /\ UNCHANGED << run, nextBm, fs, trackerVars, dom, act, dlg, hook, cli >>

\* cityValue = await cityField.inputValue()
ReadCity ==
  /\ AtStep("readCity")
  /\ cust' = [cust EXCEPT !.cityValue = cust.form["city"], !.pc = @ + 1]
  /\ UNCHANGED << run, nextBm, fs, trackerVars, dom, act, dlg, hook, cli >>

\* stateValue = await stateField.inputValue()
ReadState ==
  /\ AtStep("readState")
  /\ cust' = [cust EXCEPT !.stateValue = cust.form["stateProvince"], !.pc = @ + 1]
  /\ UNCHANGED << run, nextBm, fs, trackerVars, dom, act, dlg, hook, cli >>

\* if (!cityValue) typeIntoField(city)
WriteCity ==
  /\ AtStep("city")
  /\ \E ok \in BOOLEAN, cleared \in BOOLEAN :
       cust' = IF cust.cityValue = Blank THEN Write(cust, "city", ok, cleared, TRUE)
               ELSE [cust EXCEPT !.pc = @ + 1]
  /\ UNCHANGED << run, nextBm, fs, trackerVars, dom, act, dlg, hook, cli >>

\* if (!stateValue) typeIntoField(stateProvince)
WriteState ==
  /\ AtStep("stateProvince")
  /\ \E ok \in BOOLEAN, cleared \in BOOLEAN :
       cust' = IF cust.stateValue = Blank
               THEN Write(cust, "stateProvince", ok, cleared, TRUE)
               ELSE [cust EXCEPT !.pc = @ + 1]
  /\ UNCHANGED << run, nextBm, fs, trackerVars, dom, act, dlg, hook, cli >>

\* The terms box and the Next button: the dealer page follows, and the lookup
\* of the customer page is over.
AcceptTermsAndNext ==
  /\ AtStep("next")
  /\ cust' = [cust EXCEPT !.pc = @ + 1, !.autofill = "off"]
  /\ UNCHANGED << run, nextBm, fs, trackerVars, dom, act, dlg, hook, cli >>

\* fillDealerBuilderInfo: one of its fields.
FillDealerField ==
  /\ \E f \in DealerFields : AtStep(f)
  /\ \E ok \in BOOLEAN : cust' = Write(cust, FormSteps[cust.pc], ok, FALSE, TRUE)
  /\ UNCHANGED << run, nextBm, fs, trackerVars, dom, act, dlg, hook, cli >>

NextCustomer ==
  \/ FillCustomerDetails
  \/ TypeCustomerField
  \/ FillPostalCode
  \/ Autofill
  \/ PauseForAutofill
  \/ ReadCity
  \/ ReadState
  \/ WriteCity
  \/ WriteState
  \/ AcceptTermsAndNext
  \/ FillDealerField

SpecCustomer == Init /\ [][NextCustomer]_vars

\* WarrantyAutomation.fillCustomerInformation is called with the texts of
\* config.form.data.
FillCustomerInformation ==
  /\ cust.pc = 0
  /\ \E data \in [{"firstName", "email", "state"} -> Texts] :
       LET fields == { WarrantyFields[i] : i \in 1..Len(WarrantyFields) }
       IN  cust' = [NoCustomerPage EXCEPT
                      !.mode = "warranty", !.pc = 1,
                      !.data = [f \in fields |->
                                  IF f \in DOMAIN data THEN data[f] ELSE data["firstName"]],
                      !.form = [f \in fields |-> << "x" >>]]
  /\ UNCHANGED << run, nextBm, fs, trackerVars, dom, act, dlg, hook, cli >>

\* One field of fillCustomerInformation: browserManager.fillField (clear, then
\* fill) inside a try whose catch logs a warning and goes on to the next field.
FillWarrantyField ==
  /\ cust.mode = "warranty" /\ cust.pc \in 1..Len(WarrantyFields)
  /\ \E ok \in BOOLEAN, cleared \in BOOLEAN :
       cust' = Write(cust, WarrantyFields[cust.pc], ok, cleared, FALSE)
  /\ UNCHANGED << run, nextBm, fs, trackerVars, dom, act, dlg, hook, cli >>

NextFields ==
  \/ NextCustomer
  \/ FillCustomerInformation
  \/ FillWarrantyField

SpecFields == Init /\ [][NextFields]_vars

(***************************************************************************)
(* The webhook endpoint up to the call of runAutomationAsync.              *)
(***************************************************************************)

HasSerial(p) == p \in {"serialOnly", "both"}

HasModel(p) == p \in {"modelOnly", "both"}

\* payload.products.filter(...): null entries and entries with neither serial
\* nor model are dropped.
FilterProductsKeepAll(products) == products

FilterProducts(products) ==
  SelectSeq(products, LAMBDA p : ~(p = "null" \/ (~HasSerial(p) /\ ~HasModel(p))))

\* The errors validateWebhookPayload collects for the (filtered) products.
ProductErrors(products) ==
  { << "serial is required", i, "" >> : i \in { j \in 1..Len(products) : ~HasSerial(products[j]) } }
    \cup
  { << "model is required", i, "" >> : i \in { j \in 1..Len(products) : ~HasModel(products[j]) } }
    \cup
  (IF Len(products) = 0 THEN { << "At least one valid product is required", 0, "" >> } ELSE {})

\* WebhookServer.validateWebhookPayload: the payload with its products
\* filtered, and the validation result.
validateWebhookPayload(payload) ==
  LET products == IF payload.isArray THEN FilterProducts(payload.products)
                  ELSE payload.products
      errors ==
        (IF payload.isArray THEN ProductErrors(products)
         ELSE { << "products field must be an array", 0, "" >> })
        \cup (IF payload.installationDate THEN {}
              ELSE { << "installationDate is required", 0, "" >> })
        \cup (IF ~payload.customer.present THEN {}
              ELSE { << "Customer field is required", 0, f >> :
                       f \in RequiredCustomerFields \ payload.customer.fields })
  IN [payload |-> [payload EXCEPT !.products = products],
      result |-> [valid |-> errors = {}, errors |-> errors]]

\* A request arrives at the endpoint.
ReceivePost ==
  /\ hook.pc = "idle"
  /\ \E payload \in Payloads :
       hook' = [NoPost EXCEPT !.pc = "received", !.payload = payload,
                              !.received = payload.products]
  /\ UNCHANGED << run, nextBm, fs, trackerVars, dom, act, dlg, cust, cli >>

\* The handler validates the payload and answers 400 when it is not valid.
ValidatePayload ==
  /\ hook.pc = "received"
  /\ LET v == validateWebhookPayload(hook.payload)
     IN hook' = [hook EXCEPT !.payload = v.payload, !.result = v.result,
                             !.pc = IF v.result.valid THEN "valid" ELSE "answered",
                             !.status = IF v.result.valid THEN 0 ELSE 400]
  /\ UNCHANGED << run, nextBm, fs, trackerVars, dom, act, dlg, cust, cli >>

\* The handler transforms the payload and calls runAutomationAsync.
CallRunAutomation ==
  /\ hook.pc = "valid"
  /\ hook' = [hook EXCEPT !.started = TRUE, !.pc = "running"]
  /\ UNCHANGED << run, nextBm, fs, trackerVars, dom, act, dlg, cust, cli >>

NextHook ==
  \/ ReceivePost
  \/ ValidatePayload
  \/ CallRunAutomation

SpecHook == Init /\ [][NextHook]_vars

(***************************************************************************)
(* Properties of the page-interaction helpers.                             *)
(***************************************************************************)

\* The writes ("fill") and read-backs ("inputValue") of a call, in order.
WritesAndReads(a) == SelectSeq(a.io, LAMBDA x : x \in {"fill", "inputValue"})

IsFieldWrite(a) == a.op \in {"fillInput", "typeIntoField"}

IsLocator(a) == a.op \in {"clickFirstVisible", "getFirstVisible", "fillInput"}

NotFoundMessages ==
  { "Could not click any element with selectors",
    "Could not find input with selectors" }

\* C16: a verified field write (typeIntoField or fillInput with verify) writes
\* the value once, reads it back, and on a mismatch writes it once more and
\* returns without reading again: at most two writes and one read, the second
\* write only after a read that showed a mismatch, and the call throws only
\* when an interaction with the browser threw or no input was found, never
\* because of a mismatch.
C16_VerifiedWriteAtMostTwice ==
  IsFieldWrite(act) =>
    /\ IsPrefix(WritesAndReads(act), << "fill", "inputValue", "fill" >>)
    /\ act.pc = "retry" =>
         WritesAndReads(act) = << "fill", "inputValue" >> /\ dom.content # act.value
    /\ (act.pc = "done" /\ act.verify /\ ~act.faulted /\ act.result.kind = "return") =>
         \/ WritesAndReads(act) = << "fill", "inputValue" >> /\ dom.content = act.value
         \/ WritesAndReads(act) = << "fill", "inputValue", "fill" >>
    /\ act.result.kind = "throw" =>
         act.faulted \/ act.result.message \in NotFoundMessages

\* A verified write that found a mismatch, wrote again, left the field with
\* another text than the value, and returned.
C16_Witness ==
  /\ IsFieldWrite(act) /\ act.verify /\ act.pc = "done"
  /\ act.result.kind = "return"
  /\ WritesAndReads(act) = << "fill", "inputValue", "fill" >>
  /\ dom.content # act.value

\* The number of writes of the call so far.
Writes(a) == Len(SelectSeq(a.io, LAMBDA x : x = "fill"))

\* C17: when the form does not reformat the text, the field shows exactly the
\* value after the value was written a second time (the verify-retry path),
\* which is what one write of the value gives.
C17_SecondWriteIdempotent ==
  (IsFieldWrite(act) /\ dom.reformat = "none" /\ Writes(act) = 2) =>
    /\ dom.content = act.value
    /\ dom.content = FormShows("none", Fill(<<>>, act.value))

\* A retry on a field that had a text before, with a form that does not
\* reformat: the first write arrived garbled and the second one put the value.
C17_Witness ==
  /\ IsFieldWrite(act) /\ dom.reformat = "none" /\ Writes(act) = 2
  /\ act.pc = "done" /\ act.result.kind = "return"
  /\ dom.content = act.value

\* The iteration for selector j of the call succeeds.
Usable(a, j) ==
  IF a.op = "clickFirstVisible"
  THEN Clicks(dom.status[j], dom.click[j], a.ensureEnabled, a.forceFallback)
  ELSE Visible(dom.status[j])

\* The first selector of the list whose iteration succeeds.
FirstUsable(a) ==
  CHOOSE j \in 1..Len(a.selectors) :
    Usable(a, j) /\ \A k \in 1..(j - 1) : ~Usable(a, k)

\* C18: when the first selector of the list matches nothing and a later one
\* matches a visible element (for clickFirstVisible: one that is enabled where
\* required and can be clicked), clickFirstVisible and getFirstVisible do not
\* fail but return the match of the first such selector, and the result says
\* which selector succeeded.
C18_FallbackExposesSelector ==
  (/\ act.op \in {"clickFirstVisible", "getFirstVisible"}
   /\ act.pc = "done"
   /\ dom.status[1] = "timeout"
   /\ \E j \in 2..Len(act.selectors) : Usable(act, j)) =>
    /\ act.result.kind = "return"
    /\ act.found = FirstUsable(act)
    /\ act.result.selector = act.selectors[FirstUsable(act)]

\* C19: the selectors are tried strictly in list order; after the first one
\* that succeeds no later one is tried, and every one before it failed; the
\* not-found error is thrown only after every selector of the list was tried
\* and none succeeded, and it names the selectors.
C19_ListOrderUntilFirstSuccess ==
  IsLocator(act) =>
    /\ act.tried = SubSeq(act.selectors, 1, Len(act.tried))
    /\ act.pc = "locate" => (act.found = 0 /\ Len(act.tried) = act.i - 1)
    /\ act.found # 0 =>
         /\ Len(act.tried) = act.found
         /\ Usable(act, act.found)
         /\ \A k \in 1..(act.found - 1) : ~Usable(act, k)
    /\ act.result.message \in NotFoundMessages =>
         /\ act.result.kind = "throw"
         /\ act.tried = act.selectors
         /\ act.result.selectors = act.selectors
         /\ \A k \in 1..Len(act.selectors) : ~Usable(act, k)

\* A call that stopped at the second selector of a longer list, and (other
\* call) one that threw after three selectors: both are cases of the claim;
\* the witness is the first.
C19_Witness ==
  /\ IsLocator(act)
  /\ Len(act.selectors) >= 3
  /\ act.found = 2 /\ Len(act.tried) = 2
  /\ act.pc \in {"done", "write"}

\* C20: for a chain of 0, 1 or 3 dialogs that appear one after another after
\* the final Yes, when no click on a dialog button failed, every dialog of the
\* chain has been dismissed by the time the Download Certificate button is
\* clicked, and with no dialog no probe waited for one.
C20_DialogsDrainedBeforeDownload ==
  (/\ dlg.pc = "clicked"
   /\ Len(dlg.initial) \in {0, 1, 3}
   /\ dlg.errors = 0) =>
    /\ dlg.chain = <<>>
    /\ dlg.log = dlg.initial \o << "download" >>
    /\ dlg.initial = <<>> => dlg.waited = 0

\* C21: an error other than a timeout that is raised while a dialog or overlay
\* is detected or dismissed is not swallowed: completeRegistration fails with
\* it, and the flow does not go on to further probes or to the download.
C21_DialogErrorPropagated ==
  ("error" \in dlg.raised) => dlg.pc = "failed"

Buttons == {"Register", "Affirm", "Yes"}

\* C22: the address-confirmation probe runs once after the Register click and
\* once after the Affirm click, and an address-confirmation dialog that
\* appeared is confirmed before the next button (Affirm, the final Yes) is
\* clicked.
C22_AddressConfirmedAfterEachClick ==
  /\ dlg.pc \notin {"idle", "register", "afterRegister", "affirm", "afterAffirm",
                    "yes", "failed"} =>
       SelectSeq(dlg.steps, LAMBDA x : x \in Buttons \cup {"probe"})
         = << "Register", "probe", "Affirm", "probe", "Yes" >>
  /\ \A i \in 1..Len(dlg.steps) :
       (dlg.steps[i] = "shown" /\ \E j \in (i + 1)..Len(dlg.steps) : dlg.steps[j] \in Buttons)
         => dlg.steps[i + 1] = "confirmed"

\* C23: every popup window that a click on the Installing Contractor button
\* opened has been closed by the automation, whether the popup event fired
\* before or after the click resolved.
C23_ContractorPopupClosed ==
  dlg.popups > 0 => dlg.unclosed = 0

(***************************************************************************)
(* Properties of the customer and dealer pages.                            *)
(***************************************************************************)

\* C24: the automation writes the city (the state/province) field only when
\* the field is blank: no write of it replaces a value that the form's address
\* lookup had placed there, whenever the lookup answers.
C24_AutofillNotOverwritten ==
  \A i \in 1..Len(cust.typed) :
    cust.typed[i].field \in {"city", "stateProvince"} => cust.typed[i].before = Blank

\* The free-text fields (the phone numbers are not free text).
FreeTextFields == (CustomerFields \cup DealerFields) \ {"phone", "dealerPhone"}

\* C26: every value typed into a free-text customer or dealer field is the
\* all-uppercase form of the value the request gave for that field.
C26_FreeTextUpperCased ==
  \A i \in 1..Len(cust.typed) :
    LET f == cust.typed[i].field
        given == IF f \in CustomerFields THEN cust.customer[f] ELSE cust.dealer[f]
    IN  f \in FreeTextFields => cust.typed[i].value = ToUpperCase(given)

(***************************************************************************)
(* Further properties of runs.                                             *)
(***************************************************************************)

FirstPageSteps ==
  { "navigateToForm", "addAllProducts", "fillInstallationDate",
    "selectResidentialOption", "clickNext" }

\* C25: a run for a request without customer data begins none of the customer,
\* dealer and registration steps, produces no certificate, and once the five
\* steps of the first page have finished it has stopped without error.
C25_NoCustomerStopsAfterFirstPage ==
  \A r \in Runs :
    (run[r].driver # "none" /\ ~run[r].request.customer) =>
      /\ \A i \in 1..Len(run[r].begun) : run[r].begun[i] \in FirstPageSteps
      /\ run[r].certName = NoFile
      /\ run[r].okSteps = 5 =>
           (run[r].raised = NoError /\ run[r].pc \notin {"flow", "catch"})

\* The code (and serial) the webhook answers for the error that failed a run.
ErrorCode(err) ==
  IF err.type \in {"ALREADY_REGISTERED", "INVALID_SERIAL"}
  THEN [code |-> err.type, serial |-> err.serial, content |-> 0]
  ELSE [code |-> "ERROR", serial |-> <<>>, content |-> 0]

\* C27: a webhook run that failed is answered once, with ALREADY_REGISTERED and
\* the serial when it failed with that type, INVALID_SERIAL and the serial
\* when it failed with that type, and ERROR for every other failure; no answer
\* is sent before the run has ended.
C27_WebhookErrorCode ==
  \A r \in Runs :
    run[r].driver = "webhook" =>
      /\ run[r].pc # "done" => run[r].response = NoResponse
      /\ (run[r].pc = "done" /\ run[r].raised # NoError) =>
           run[r].response = ErrorCode(run[r].raised)

\* A webhook run that failed on an already registered serial and was answered.
C27_Witness ==
  \E r \in Runs :
    /\ run[r].driver = "webhook" /\ run[r].pc = "done"
    /\ run[r].raised.type = "ALREADY_REGISTERED"
    /\ run[r].response.code = "ALREADY_REGISTERED"
    /\ run[r].response.serial = run[r].raised.serial
    /\ run[r].response.serial # <<>>

(***************************************************************************)
(* Properties of the webhook endpoint.                                     *)
(***************************************************************************)

\* A customer group with all the required fields.
CompleteCustomer == [present |-> TRUE, fields |-> RequiredCustomerFields]

\* C28: after validation the products of the payload are the received ones
\* without the entries that have neither serial nor model (in the same order);
\* the payload is accepted exactly when at least one product remains, every
\* remaining product has serial and model, installationDate is present, and
\* the customer group, when present, has all six required fields; and
\* runAutomationAsync is called only for an accepted payload.
C28_PayloadAccepted ==
  LET remaining == hook.payload.products
      kept(p) == p \in {"serialOnly", "modelOnly", "both"}
  IN  /\ hook.pc \in {"valid", "answered", "running"} =>
           /\ hook.payload.isArray => remaining = SelectSeq(hook.received, kept)
           /\ hook.result.valid <=>
                /\ hook.payload.isArray
                /\ Len(remaining) >= 1
                /\ \A i \in 1..Len(remaining) : remaining[i] = "both"
                /\ hook.payload.installationDate
                /\ hook.payload.customer \in {NoCustomer, CompleteCustomer}
      /\ hook.started => (hook.result.valid /\ hook.status = 0)
      /\ hook.status = 400 <=> (hook.pc = "answered" /\ ~hook.result.valid)

\* A payload with an empty product entry next to a complete one, and a
\* complete customer group: the empty entry was removed and the run started.
C28_Witness ==
  /\ hook.started
  /\ Len(hook.payload.products) < Len(hook.received)
  /\ hook.payload.customer = CompleteCustomer

\* C29: the serials are entered one at a time in the order of the request: the
\* serials submitted so far are a prefix of the product list (in the upper-case
\* form in which they are typed), the form's answer to each of them has been
\* probed, and a further serial was filled only after both probes of the one
\* before found no error.
C29_SerialsInRequestOrder ==
  \A r \in Runs :
    LET n == Len(run[r].submitted)
    IN  /\ n <= Len(run[r].request.products)
        /\ \A i \in 1..n : run[r].submitted[i] = ToUpperCase(run[r].request.products[i])
        /\ Len(run[r].seen) = n
        /\ \A i \in 1..(n - 1) : run[r].seen[i] = "clean"

\* A run that has submitted two serials.
C29_Witness ==
  \E r \in Runs :
    /\ Len(run[r].submitted) = 2
    /\ run[r].submitted[1] # run[r].submitted[2]
    /\ run[r].seen[1] = "clean"

C33_DownloadNotMissed ==
  /\ \E n \in 0..5 :
       dlg.dl = SubSeq(<< "listen", "click", "event", "save", "return" >>, 1, n)
  /\ dlg.event # "missed"
  /\ dlg.pc = "returned" => dlg.dl[Len(dlg.dl)] = "return"

\* A download whose event fired while the click was still awaited, saved and
\* returned.
C33_Witness ==
  /\ dlg.pc = "returned" /\ dlg.fired = "duringClick"
  /\ dlg.dl = << "listen", "click", "event", "save", "return" >>

\* C34: when an operation of BrowserManager fails (waitForSelector, or the
\* click, fill or select after it), an error-labelled screenshot has been
\* taken when the failure reaches the caller, and the error that reaches the
\* caller is the original failure.
C34_ScreenshotBeforeFailure ==
  (act.op \in BrowserManagerOps /\ act.pc = "done" /\ act.result.kind = "throw") =>
    /\ act.shots = << "error" >>
    /\ act.result.message = act.cause

\* C35: a field write that fails leaves every field the automation wrote
\* earlier in the run as it was, and no field is written a second time, both
\* where the failure ends the method (DaikinAutomation) and where the
\* remaining fields are still attempted (fillCustomerInformation).
C35_EarlierFieldsKept ==
  /\ [](\A i, j \in 1..Len(cust.typed) :
          cust.typed[i].field = cust.typed[j].field => i = j)
  /\ [][Len(cust'.failures) > Len(cust.failures) =>
          \A i \in 1..Len(cust.typed) :
            cust'.form[cust.typed[i].field] = cust.form[cust.typed[i].field]]_vars

\* fillCustomerInformation wrote two fields, failed on the third after clearing
\* it, and wrote the remaining ones; the first two hold what was written.
C35_Witness ==
  /\ cust.mode = "warranty" /\ cust.pc = Len(WarrantyFields) + 1
  /\ cust.failures = << "email" >>
  /\ Len(cust.typed) = Len(WarrantyFields) - 1
  /\ cust.form["email"] = Blank
  /\ cust.form["firstName"] = cust.data["firstName"]
  /\ cust.form["lastName"] = cust.data["lastName"]

C37_BrowserClosedAfterClose ==
  \A r \in Runs :
    (run[r].closeResult = "returned" /\ run[r].res.browser = "open") =>
      \E i \in 1..Len(run[r].closeLog) : run[r].closeLog[i] = "browser"

\* C38: every native dialog whose event handleDialog receives has been
\* accepted or dismissed when handleDialog returns, whatever its message.
C38_ReceivedDialogAnswered ==
  dlg.unanswered = 0

\* C39: runCleanup deletes a file only in the iteration for an entry that
\* shouldDeleteFile marked for deletion; it removes such an entry from its
\* metadata only when the file is gone afterwards (deleted, or missing
\* before); and when the deletion fails the entry stays, the error count goes
\* up by one and the loop goes on with the remaining entries.
C39_CleanupKeepsWhatItCannotDelete ==
  [][/\ fs' # fs =>
          \E c \in Calls : call[c].pc = "loop" /\ call'[c] # call[c]
     /\ \A c \in Calls :
          (call[c].pc = "loop" /\ call[c].todo # <<>> /\ call'[c] # call[c]) =>
            LET e == Head(call[c].todo)
                expired == shouldDeleteFile(e, call[c].cutoffTime, now)
            IN  /\ fs' # fs =>
                     /\ expired
                     /\ \A f \in Filenames : f # e.name => fs'[f] = fs[f]
                /\ call'[c].md # call[c].md =>
                     /\ expired
                     /\ fs'[e.name] = 0
                     /\ call'[c].md = Remove(call[c].md, e.name)
                /\ (expired /\ fs'[e.name] # 0) =>
                     /\ call'[c].md = call[c].md
                     /\ call'[c].errors = call[c].errors + 1
                     /\ call'[c].pc = "loop"
                     /\ call'[c].todo = Tail(call[c].todo)]_vars

\* A pass that could not delete the file of its first expired entry, kept the
\* entry, and went on to delete the second.
C39_Witness ==
  \E c \in Calls :
    /\ call[c].op = "runCleanup" /\ call[c].pc = "loop" /\ call[c].todo = <<>>
    /\ call[c].errors = 1 /\ call[c].cleaned = 1
    /\ Len(call[c].loaded) = 2 /\ Len(call[c].md) = 1
    /\ call[c].md[1] = call[c].loaded[1]
    /\ fs[call[c].loaded[1].name] # 0

====
